---- MODULE Spec2Model ----
(***************************************************************************)
(* Model of vscode_colab.server: the login and connect drivers that launch *)
(* the VS Code CLI, scan its output line by line under a 60 second         *)
(* deadline, and manage the life cycle of the launched process.            *)
(*                                                                         *)
(* A line of process output is a sequence of symbols.  A symbol stands for *)
(* one character or for one fixed literal chunk of characters:             *)
(*   "U"    one character of [A-Z0-9]                                      *)
(*   "l"    one lowercase letter                                           *)
(*   "-"    a hyphen            "/"   a slash        "sp"  one blank       *)
(*   "http" the literal  https://                                          *)
(*   "dev"  the literal  github.com/login/device                           *)
(*   "vsc"  the literal  vscode.dev/tunnel/                                *)
(* The three regular expressions of server.py are computed on these        *)
(* sequences the way re.search computes them on the characters: leftmost   *)
(* match, greedy quantifiers.                                              *)
(*                                                                         *)
(* Besides the specification of the two drivers (Spec, FairSpec) there are *)
(* specifications of single functions: CmdSpec (the tunnel command line),  *)
(* ScanSpec (the scan of one line of any shape), GitSpec (configure_git),  *)
(* DlSpec (download_vscode_cli called concurrently), ProjSpec              *)
(* (setup_project_directory), PySpec (setup_and_get_python_executable) and *)
(* PreSpec (login and connect up to the launch).                           *)
(***************************************************************************)
EXTENDS Integers, Sequences, FiniteSets, TLC

VARIABLES
    mode,            \* "none" | "login" | "connect": the function called
    pc,              \* position of the call in the function body
    result,          \* "none" | "True" | "False" | "None" | "handle" | "exception"
    outcome,         \* which exit path produced the result
    fs,              \* the CLI files on disk: [dir, bin, tarball]
    tunnel_cwd,      \* project_path_for_tunnel_cwd (connect)
    proc,            \* "none" | "running" | "exited" | "reaped"
    termSent,        \* proc.terminate() has been called
    waited,          \* proc.wait() has returned
    pipe,            \* lines written by the process and not yet read
    eof,             \* the write end of the process's stdout is closed
    nWritten,        \* number of lines the process has written
    now,             \* time.time()
    start_time,      \* start_time of the monitoring loop
    line,            \* the loop variable `line`
    scanned,         \* the lines the loop body has scanned, in order
    auth_url_found,  \* login: <<>> stands for None
    auth_code_found, \* login: <<>> stands for None
    tunnel_url,      \* connect: <<>> while unset
    shown,           \* the presenter invocations so far, each its arguments
    presented,       \* number of presenter invocations that returned normally
    cmd_calls,       \* command-line construction of connect: the calls compared
    git_call,        \* one call of the git configuration step: arguments and effect
    cli_disk,        \* the CLI files on disk shared by concurrent acquisitions
    dl,              \* the concurrent download_vscode_cli calls, each its position
    proj,            \* one call of setup_project_directory: inputs, position, effects
    py,              \* one call of setup_and_get_python_executable, likewise
    pre              \* what a login or connect call did before the launch

\* the variables of the function-level specifications (command line, git
\* configuration, concurrent acquisition, project directory, Python
\* environment); login and connect leave them alone
auxVars == <<cmd_calls, git_call, cli_disk, dl, proj, py, pre>>

\* the variables of the login and connect drivers
driverVars == <<mode, pc, result, outcome, fs, tunnel_cwd, proc, termSent, waited,
                pipe, eof, nWritten, now, start_time, line, scanned,
                auth_url_found, auth_code_found, tunnel_url, shown, presented>>

vars == <<driverVars, auxVars>>

----------------------------------------------------------------------------
(* Bounds of the model *)

\* the process writes at most MaxLines lines
MaxLines == 3
\* the clock advances in steps of TickStep seconds, up to MaxClock; the
\* process is launched no later than MaxStart
TickStep == 30
MaxClock == 90
MaxStart == 30

\* extension identifiers are 1..MaxExt; the `extensions` argument of connect
\* holds at most MaxExtLen of them
MaxExt == 3
MaxExtLen == 2
\* the groups of a hyphenated token in a scanned line have at most MaxGroup
\* characters
MaxGroup == 9

(* Program constants *)

\* timeout_seconds of login and connect
timeout_seconds == 60
\* the quantifier {4,8} of code_re
CodeMin == 4
CodeMax == 8

----------------------------------------------------------------------------
(* Lines *)

Rep(n, s) == [i \in 1..n |-> s]

\* "WXYZ-1234"
CodeA == Rep(4, "U") \o <<"-">> \o Rep(4, "U")
\* "WXYZ9-1234"
CodeB == Rep(5, "U") \o <<"-">> \o Rep(4, "U")
\* "https://github.com/login/device"
UrlA == <<"http", "dev">>
\* "https://github.com/login/device/x"
UrlB == <<"http", "dev", "/", "l">>
\* "https://vscode.dev/tunnel/colab/abc123"
TunA == <<"http", "vsc", "l", "/", "l", "U">>
\* "https://vscode.dev/tunnel/colab"
TunB == <<"http", "vsc", "l">>

LineNoise == <<"l", "sp", "l">>
LineUrlA == <<"l", "sp">> \o UrlA
LineUrlB == UrlB \o <<"sp", "l">>
LineCodeA == <<"l", "sp">> \o CodeA
LineCodeB == CodeB
LineBoth == <<"l", "sp">> \o UrlA \o <<"sp", "l", "sp">> \o CodeA
LineTunA == <<"l", "sp">> \o TunA
LineTunB == TunB \o <<"sp", "l">>

\* the lines the login process may write
LoginLines == {LineUrlA, LineUrlB, LineCodeA, LineCodeB, LineBoth, LineTunB}
\* the lines the tunnel process may write
ConnectLines == {LineNoise, LineUrlA, LineTunA, LineTunB}

----------------------------------------------------------------------------
(* The regular expressions *)

Min2(a, b) == IF a < b THEN a ELSE b

\* number of consecutive symbols of s from position i on that lie in set C
RECURSIVE RunLen(_, _, _)
RunLen(s, i, C) ==
    IF i > Len(s) \/ s[i] \notin C THEN 0 ELSE 1 + RunLen(s, i + 1, C)

NonSpace == {"U", "l", "-", "/", "http", "dev", "vsc"}
WordOrHyphen == {"U", "l", "-"}

\* url_re = https?://[^\s]+ matches at i
UrlMatchAt(s, i) == i <= Len(s) /\ s[i] = "http" /\ RunLen(s, i + 1, NonSpace) >= 1

\* url_re.search(line).group(0), <<>> when there is no match
UrlReSearch(s) ==
    IF \E i \in 1..Len(s) : UrlMatchAt(s, i)
    THEN LET i == CHOOSE k \in 1..Len(s) :
                      UrlMatchAt(s, k) /\ \A j \in 1..(k - 1) : ~UrlMatchAt(s, j)
         IN  SubSeq(s, i, i + RunLen(s, i + 1, NonSpace))
    ELSE <<>>

\* "github.com/login/device" in um.group(0)
HasDevicePath(m) == \E k \in 1..Len(m) : m[k] = "dev"

\* code_re = ([A-Z0-9]{4,8}-[A-Z0-9]{4,8}): length of the match at i, 0 if none.
\* The first group takes a symbols of U, CodeMin <= a <= CodeMax, and must be
\* followed by the hyphen, so a is the whole run of U from i; the second
\* group is greedy up to CodeMax.
CodeMatchLen(s, i) ==
    LET a == RunLen(s, i, {"U"})
        b == RunLen(s, i + a + 1, {"U"})
    IN  IF /\ a >= CodeMin /\ a <= CodeMax
           /\ i + a <= Len(s) /\ s[i + a] = "-"
           /\ b >= CodeMin
        THEN a + 1 + Min2(b, CodeMax)
        ELSE 0

\* code_re.search(line).group(0), <<>> when there is no match
CodeReSearch(s) ==
    IF \E i \in 1..Len(s) : CodeMatchLen(s, i) > 0
    THEN LET i == CHOOSE k \in 1..Len(s) :
                      CodeMatchLen(s, k) > 0 /\ \A j \in 1..(k - 1) : CodeMatchLen(s, j) = 0
         IN  SubSeq(s, i, i + CodeMatchLen(s, i) - 1)
    ELSE <<>>

\* url_re of connect = https://vscode\.dev/tunnel/[\w-]+(?:/[\w-]+)? :
\* length of the match at i, 0 if none
TunnelMatchLen(s, i) ==
    LET a == RunLen(s, i + 2, WordOrHyphen)
        b == RunLen(s, i + 2 + a + 1, WordOrHyphen)
    IN  IF i + 1 <= Len(s) /\ s[i] = "http" /\ s[i + 1] = "vsc" /\ a >= 1
        THEN IF i + 2 + a <= Len(s) /\ s[i + 2 + a] = "/" /\ b >= 1
             THEN 2 + a + 1 + b
             ELSE 2 + a
        ELSE 0

\* url_re.search(line).group(0) in connect, <<>> when there is no match
TunnelReSearch(s) ==
    IF \E i \in 1..Len(s) : TunnelMatchLen(s, i) > 0
    THEN LET i == CHOOSE k \in 1..Len(s) :
                      TunnelMatchLen(s, k) > 0 /\ \A j \in 1..(k - 1) : TunnelMatchLen(s, j) = 0
         IN  SubSeq(s, i, i + TunnelMatchLen(s, i) - 1)
    ELSE <<>>

----------------------------------------------------------------------------
(* The System facade.  login and connect receive the facade as an argument; *)
(* the outcome of each of its calls is an input of the model.  A call that  *)
(* System wraps in try/except (download_file, remove_file) reports failure  *)
(* as a value; run_command wraps nothing, so it returns a return code or    *)
(* raises.                                                                  *)

\* outcomes of the System calls made by one download_vscode_cli call:
\*   dl   download_file: "ok", "fail" (no file written), "partial" (failed
\*        while writing, the partial file stays)
\*   tar  which("tar") finds tar
\*   ext  run_command(tar -xf): "ok" (rc 0), "fail" (rc # 0), "raise"
\*   unp  what the archive unpacks: "none", "dir" (./code without the binary),
\*        "bin" (binary, not executable in the end), "binx" (executable binary)
\*   rm   os.remove of the tarball succeeds
SysOutcomes ==
    [dl : {"ok", "fail", "partial"}, tar : BOOLEAN, ext : {"ok", "fail", "raise"},
     unp : {"none", "dir", "bin", "binx"}, rm : BOOLEAN]

\* the outcomes drawn in the calls of login and connect: removing the
\* tarball succeeds
CallOutcomes == {o \in SysOutcomes : o.rm}

\* system.remove_file(abs_cli_tarball_path, missing_ok=True)
RemoveTarball(f, o) == [f EXCEPT !.tarball = f.tarball /\ ~o.rm]

\* download_vscode_cli(system, force_download): [ret, fs], ret "raise" when an
\* exception leaves the function
download_vscode_cli(f, force_download, o) ==
    IF f.dir /\ ~force_download
    THEN [ret |-> "True", fs |-> f]
    ELSE IF o.dl # "ok"
    THEN [ret |-> "False",
          fs |-> [f EXCEPT !.tarball = f.tarball \/ o.dl = "partial"]]
    ELSE LET f1 == [f EXCEPT !.tarball = TRUE]
         IN  IF ~o.tar
             THEN [ret |-> "False", fs |-> RemoveTarball(f1, o)]
             ELSE IF o.ext = "raise"
             THEN [ret |-> "raise", fs |-> f1]
             ELSE LET f2 == IF o.ext = "ok"
                            THEN [f1 EXCEPT !.dir = f1.dir \/ o.unp # "none",
                                            !.bin = IF o.unp \in {"bin", "binx"}
                                                    THEN o.unp = "binx"
                                                    ELSE f1.bin]
                            ELSE f1
                      f3 == RemoveTarball(f2, o)
                 IN  IF o.ext = "fail" THEN [ret |-> "False", fs |-> f3]
                     ELSE IF ~f3.dir THEN [ret |-> "False", fs |-> f3]
                     ELSE [ret |-> "True", fs |-> f3]

\* system.is_executable(cli_exe_path)
is_executable(f) == f.dir /\ f.bin

\* download_vscode_cli(system, force_download) calls system.download_file:
\* it does unless it returns at the existence test
download_attempted(f, force_download) == ~(f.dir /\ ~force_download)

\* truthiness of an Optional[str] argument: None and "" are falsy
Truthy(x) == x \notin {"None", ""}

\* the result of a git configuration step: what it returns and the git
\* config commands it ran
GitResult(ret, cmds) == [ret |-> ret, cmds |-> cmds]

\* configure_git setting whichever of the two values is given
configure_git_RunsGiven(name_given, email_given, n, e) ==
    IF ~name_given /\ ~email_given THEN GitResult("True", <<>>)
    ELSE IF name_given /\ n = "raise" THEN GitResult("raise", <<"user.name">>)
    ELSE IF name_given /\ n = "fail" THEN GitResult("False", <<"user.name">>)
    ELSE LET done == IF name_given THEN <<"user.name">> ELSE <<>>
         IN  IF ~email_given THEN GitResult("True", done)
             ELSE IF e = "raise" THEN GitResult("raise", done \o <<"user.email">>)
             ELSE IF e = "fail" THEN GitResult("False", done \o <<"user.email">>)
             ELSE GitResult("True", done \o <<"user.email">>)

\* configure_git attempting user.email even after user.name failed
configure_git_NoEarlyReturn(name_given, email_given, n, e) ==
    IF ~name_given /\ ~email_given THEN GitResult("True", <<>>)
    ELSE IF name_given # email_given THEN GitResult("True", <<>>)
    ELSE IF n = "raise" THEN GitResult("raise", <<"user.name">>)
    ELSE IF e = "raise" THEN GitResult("raise", <<"user.name", "user.email">>)
    ELSE IF n = "fail" \/ e = "fail"
         THEN GitResult("False", <<"user.name", "user.email">>)
    ELSE GitResult("True", <<"user.name", "user.email">>)

\* configure_git(system, git_user_name, git_user_email): ret is "True",
\* "False", or "raise" when run_command raises; n and e are the outcomes of
\* the two run_command calls ("ok", "fail", "raise")
configure_git(name_given, email_given, n, e) ==
    IF ~name_given /\ ~email_given THEN GitResult("True", <<>>)
    ELSE IF name_given # email_given THEN GitResult("True", <<>>)
    ELSE IF n = "raise" THEN GitResult("raise", <<"user.name">>)
    ELSE IF n = "fail" THEN GitResult("False", <<"user.name">>)
    ELSE IF e = "raise" THEN GitResult("raise", <<"user.name", "user.email">>)
    ELSE IF e = "fail" THEN GitResult("False", <<"user.name", "user.email">>)
    ELSE GitResult("True", <<"user.name", "user.email">>)

\* connect: if git_user_name and git_user_email: configure_git(...)
connect_git(name_given, email_given, n, e) ==
    IF name_given /\ email_given
    THEN configure_git(name_given, email_given, n, e)
    ELSE GitResult("not called", <<>>)

CmdOutcomes == {"ok", "fail", "raise"}

----------------------------------------------------------------------------
(* Initial state: no call made yet *)

\* the drivers before login or connect is called
Idle ==
    /\ mode = "none"
    /\ pc = "idle"
    /\ result = "none"
    /\ outcome = "none"
    /\ fs \in {[dir |-> FALSE, bin |-> FALSE, tarball |-> FALSE],
               [dir |-> TRUE, bin |-> FALSE, tarball |-> FALSE],
               [dir |-> TRUE, bin |-> TRUE, tarball |-> FALSE]}
    /\ tunnel_cwd = "cwd"
    /\ proc = "none"
    /\ termSent = FALSE
    /\ waited = FALSE
    /\ pipe = <<>>
    /\ eof = FALSE
    /\ nWritten = 0
    /\ now = 0
    /\ start_time = 0
    /\ line = <<>>
    /\ scanned = <<>>
    /\ auth_url_found = <<>>
    /\ auth_code_found = <<>>
    /\ tunnel_url = <<>>
    /\ shown = <<>>
    /\ presented = 0

\* the function-level variables at rest
AuxIdle ==
    /\ cmd_calls = <<>>
    /\ git_call = <<>>
    /\ cli_disk = <<>>
    /\ dl = <<>>
    /\ proj = <<>>
    /\ py = <<>>
    /\ pre = <<>>

Init == Idle /\ AuxIdle

procVars == <<proc, termSent, waited, pipe, eof, nWritten>>
scanVars == <<line, scanned, auth_url_found, auth_code_found, tunnel_url, shown, presented>>
timeVars == <<now, start_time>>

\* the value with which the function signals failure
Failure == IF mode = "login" THEN "False" ELSE "None"

\* `return <failure>` taken on exit path o
ReturnFailure(o) ==
    /\ pc' = "returned"
    /\ result' = Failure
    /\ outcome' = o

\* an exception leaves the function
Propagate ==
    /\ pc' = "raised"
    /\ result' = "exception"
    /\ outcome' = "raised"

----------------------------------------------------------------------------
(* login: the steps before the process is launched *)

\* vscode_colab.login(provider) -> server.login(system, provider)
Login ==
    /\ pc = "idle"
    /\ mode' = "login"
    /\ pc' = "l_check"
    /\ UNCHANGED <<auxVars, result, outcome, fs, tunnel_cwd, procVars, scanVars, timeVars>>

\* if not system.is_executable(cli_exe_path): ...
LoginCheckCli ==
    /\ mode = "login" /\ pc = "l_check"
    /\ pc' = IF is_executable(fs) THEN "spawn" ELSE "l_download"
    /\ UNCHANGED <<auxVars, mode, result, outcome, fs, tunnel_cwd, procVars, scanVars, timeVars>>

\* if not download_vscode_cli(system=system): return False
\* (o: the outcomes of the System calls of the download)
LoginDownloadWith(o) ==
    /\ mode = "login" /\ pc = "l_download"
    /\ LET r == download_vscode_cli(fs, FALSE, o)
       IN  /\ fs' = r.fs
           /\ CASE r.ret = "True" -> pc' = "l_recheck" /\ UNCHANGED <<result, outcome>>
                [] r.ret = "False" -> ReturnFailure("nocli")
                [] OTHER -> Propagate
    /\ UNCHANGED <<mode, tunnel_cwd, procVars, scanVars, timeVars>>

LoginDownload ==
    /\ \E o \in CallOutcomes : LoginDownloadWith(o)
    /\ UNCHANGED auxVars

\* LoginRecheck without the second is_executable test
LoginRecheck_NoCheck ==
    /\ mode = "login" /\ pc = "l_recheck"
    /\ pc' = "spawn" /\ UNCHANGED <<result, outcome>>
    /\ UNCHANGED <<auxVars, mode, fs, tunnel_cwd, procVars, scanVars, timeVars>>

\* if not system.is_executable(cli_exe_path): return False   (after download)
LoginRecheck ==
    /\ mode = "login" /\ pc = "l_recheck"
    /\ IF is_executable(fs)
       THEN pc' = "spawn" /\ UNCHANGED <<result, outcome>>
       ELSE ReturnFailure("nocli")
    /\ UNCHANGED <<auxVars, mode, fs, tunnel_cwd, procVars, scanVars, timeVars>>

----------------------------------------------------------------------------
(* connect: the steps before the process is launched *)

\* vscode_colab.connect(...) -> server.connect(system, ...)
Connect ==
    /\ pc = "idle"
    /\ mode' = "connect"
    /\ pc' = "c_download"
    /\ UNCHANGED <<auxVars, result, outcome, fs, tunnel_cwd, procVars, scanVars, timeVars>>

\* if not download_vscode_cli(system, force_download=False): return None
ConnectDownloadWith(o) ==
    /\ mode = "connect" /\ pc = "c_download"
    /\ LET r == download_vscode_cli(fs, FALSE, o)
       IN  /\ fs' = r.fs
           /\ CASE r.ret = "True" -> pc' = "c_git" /\ UNCHANGED <<result, outcome>>
                [] r.ret = "False" -> ReturnFailure("nocli")
                [] OTHER -> Propagate
    /\ UNCHANGED <<mode, tunnel_cwd, procVars, scanVars, timeVars>>

ConnectDownload ==
    /\ \E o \in CallOutcomes : ConnectDownloadWith(o)
    /\ UNCHANGED auxVars

\* if git_user_name and git_user_email: configure_git(...)   (result unused)
ConnectGit ==
    /\ mode = "connect" /\ pc = "c_git"
    /\ \E name_given \in BOOLEAN, email_given \in BOOLEAN, n \in CmdOutcomes, e \in CmdOutcomes :
         IF connect_git(name_given, email_given, n, e).ret = "raise"
         THEN Propagate
         ELSE pc' = "c_python" /\ UNCHANGED <<result, outcome>>
    /\ UNCHANGED <<auxVars, mode, fs, tunnel_cwd, procVars, scanVars, timeVars>>

\* if setup_python_version: pyenv_manager.setup_and_get_python_executable(...)
\* r: "ok" | "err" (a failure result, default python3 is kept) | "raise"
\* (a run_command of PythonEnvManager raises; nothing catches it)
ConnectPython ==
    /\ mode = "connect" /\ pc = "c_python"
    /\ \E requested \in BOOLEAN, r \in {"ok", "err", "raise"} :
         IF requested /\ r = "raise"
         THEN Propagate
         ELSE pc' = "c_project" /\ UNCHANGED <<result, outcome>>
    /\ UNCHANGED <<auxVars, mode, fs, tunnel_cwd, procVars, scanVars, timeVars>>

\* ConnectProjectWith taking the requested project path whether or not
\* setup_project_directory returned it
ConnectProjectWith_AnyRequested(requested, created) ==
    /\ mode = "connect" /\ pc = "c_project"
    /\ tunnel_cwd' = IF requested THEN "project" ELSE tunnel_cwd
    /\ pc' = "c_check"
    /\ UNCHANGED <<mode, result, outcome, fs, procVars, scanVars, timeVars>>

\* if create_new_project: created_project_path = setup_project_directory(...)
\* setup_project_directory catches every Exception: it returns a path or None
\* (requested: create_new_project is given; created: the call returns a path)
ConnectProjectWith(requested, created) ==
    /\ mode = "connect" /\ pc = "c_project"
    /\ tunnel_cwd' = IF requested /\ created THEN "project" ELSE tunnel_cwd
    /\ pc' = "c_check"
    /\ UNCHANGED <<mode, result, outcome, fs, procVars, scanVars, timeVars>>

ConnectProject ==
    /\ \E requested \in BOOLEAN, created \in BOOLEAN :
         ConnectProjectWith(requested, created)
    /\ UNCHANGED auxVars

\* if not system.is_executable(cli_exe_abs_path): ... else: cli_exe_for_popen = ...
ConnectCheckCli ==
    /\ mode = "connect" /\ pc = "c_check"
    /\ pc' = IF is_executable(fs) THEN "spawn" ELSE "c_redownload"
    /\ UNCHANGED <<auxVars, mode, result, outcome, fs, tunnel_cwd, procVars, scanVars, timeVars>>

\* if not download_vscode_cli(system, force_download=True): return None
ConnectRedownloadWith(o) ==
    /\ mode = "connect" /\ pc = "c_redownload"
    /\ LET r == download_vscode_cli(fs, TRUE, o)
       IN  /\ fs' = r.fs
           /\ CASE r.ret = "True" -> pc' = "c_recheck" /\ UNCHANGED <<result, outcome>>
                [] r.ret = "False" -> ReturnFailure("nocli")
                [] OTHER -> Propagate
    /\ UNCHANGED <<mode, tunnel_cwd, procVars, scanVars, timeVars>>

ConnectRedownload ==
    /\ \E o \in CallOutcomes : ConnectRedownloadWith(o)
    /\ UNCHANGED auxVars

\* ConnectRecheck without the test that follows the forced re-download
ConnectRecheck_NoCheck ==
    /\ mode = "connect" /\ pc = "c_recheck"
    /\ pc' = "spawn" /\ UNCHANGED <<result, outcome>>
    /\ UNCHANGED <<auxVars, mode, fs, tunnel_cwd, procVars, scanVars, timeVars>>

\* if not system.is_executable(cli_exe_for_popen): return None
ConnectRecheck ==
    /\ mode = "connect" /\ pc = "c_recheck"
    /\ IF is_executable(fs)
       THEN pc' = "spawn" /\ UNCHANGED <<result, outcome>>
       ELSE ReturnFailure("nocli")
    /\ UNCHANGED <<auxVars, mode, fs, tunnel_cwd, procVars, scanVars, timeVars>>

----------------------------------------------------------------------------
(* The launched process and the clock: the environment of the call *)

Monitoring == pc \in {"readline", "deadline", "scan", "present", "poll", "after",
                      "except", "terminate", "wait"}

\* the for loop over proc.stdout.readline is still running; what the process
\* writes after the loop has ended is never read
InLoop == pc \in {"readline", "deadline", "scan", "present", "poll"}

\* the process writes one line to its stdout
ProcWrite ==
    /\ proc = "running" /\ ~eof
    /\ InLoop
    /\ nWritten < MaxLines
    /\ \E l \in (IF mode = "login" THEN LoginLines ELSE ConnectLines) :
         pipe' = Append(pipe, l)
    /\ nWritten' = nWritten + 1
    /\ UNCHANGED <<auxVars, mode, pc, result, outcome, fs, tunnel_cwd, proc, termSent, waited,
                   eof, scanVars, timeVars>>

\* the process closes its stdout and keeps running
ProcCloseStdout ==
    /\ proc = "running" /\ ~eof
    /\ InLoop
    /\ eof' = TRUE
    /\ UNCHANGED <<auxVars, mode, pc, result, outcome, fs, tunnel_cwd, proc, termSent, waited,
                   pipe, nWritten, scanVars, timeVars>>

\* the process exits, on its own or on the signal of terminate(); its stdout
\* closes with it
ProcExit ==
    /\ proc = "running"
    /\ Monitoring
    /\ proc' = "exited"
    /\ eof' = TRUE
    /\ UNCHANGED <<auxVars, mode, pc, result, outcome, fs, tunnel_cwd, termSent, waited,
                   pipe, nWritten, scanVars, timeVars>>

\* time passes
Tick ==
    /\ (pc = "spawn" /\ now < MaxStart) \/ Monitoring
    /\ now + TickStep <= MaxClock
    /\ now' = now + TickStep
    /\ UNCHANGED <<auxVars, mode, pc, result, outcome, fs, tunnel_cwd, procVars, scanVars, start_time>>

\* The caller interrupts the call (KeyboardInterrupt, raised in the calling
\* thread when the notebook cell is interrupted) while the call is blocked in
\* readline or in wait.  KeyboardInterrupt is not an Exception: neither
\* `except FileNotFoundError` nor `except Exception` catches it, and there is
\* no finally clause, so it leaves the function at once.
Interrupt ==
    /\ pc \in {"readline", "wait"}
    /\ pc' = "raised"
    /\ result' = "exception"
    /\ outcome' = "interrupted"
    /\ UNCHANGED <<auxVars, mode, fs, tunnel_cwd, procVars, scanVars, timeVars>>

----------------------------------------------------------------------------
(* subprocess.Popen *)

\* the state of the process after proc.poll(): poll reaps a process that exited
Poll(p) == IF p = "exited" THEN "reaped" ELSE p

\* proc.poll() is None
PollIsNone(p) == p = "running"

\* outcomes of subprocess.Popen(...): the process starts, FileNotFoundError,
\* or another exception (PermissionError, OSError)
PopenOutcomes == {"ok", "fnf", "err"}

\* proc.terminate() followed by proc.wait() followed by `return False/None`:
\* the first half, the signal
Terminate ==
    /\ pc = "terminate"
    /\ termSent' = TRUE
    /\ pc' = "wait"
    /\ UNCHANGED <<auxVars, mode, result, outcome, fs, tunnel_cwd, proc, waited, pipe, eof,
                   nWritten, scanVars, timeVars>>

\* the second half: wait() blocks until the process has exited and reaps it,
\* then the function returns its failure value
Wait ==
    /\ pc = "wait"
    /\ proc # "running"
    /\ proc' = "reaped"
    /\ waited' = TRUE
    /\ pc' = "returned"
    /\ result' = Failure
    /\ UNCHANGED <<auxVars, mode, outcome, fs, tunnel_cwd, termSent, pipe, eof, nWritten,
                   scanVars, timeVars>>

\* ExceptHandler without the cleanup: the handler returns at once
ExceptHandler_NoCleanup ==
    /\ pc = "except"
    /\ ReturnFailure("exception")
    /\ UNCHANGED <<auxVars, mode, fs, tunnel_cwd, procVars, scanVars, timeVars>>

\* except Exception as e: if proc and proc.poll() is None: terminate, wait;
\* return False/None
ExceptHandler ==
    /\ pc = "except"
    /\ IF proc = "none"
       THEN ReturnFailure("exception") /\ UNCHANGED proc
       ELSE IF PollIsNone(proc)
       THEN pc' = "terminate" /\ outcome' = "exception" /\ UNCHANGED <<result, proc>>
       ELSE ReturnFailure("exception") /\ proc' = Poll(proc)
    /\ UNCHANGED <<auxVars, mode, fs, tunnel_cwd, termSent, waited, pipe, eof, nWritten,
                   scanVars, timeVars>>

----------------------------------------------------------------------------
(* login: launch and monitoring *)

\* proc = subprocess.Popen(cmd_str, shell=True, stdout=PIPE, ...);
\* start_time = time.time().  With stdout=PIPE proc.stdout is never None, so
\* the branch of line 178 is not taken.
LoginSpawn ==
    /\ mode = "login" /\ pc = "spawn"
    /\ \E r \in PopenOutcomes :
         CASE r = "ok" -> /\ proc' = "running"
                          /\ start_time' = now
                          /\ pc' = "readline"
                          /\ UNCHANGED <<result, outcome>>
           [] r = "fnf" -> ReturnFailure("notfound") /\ UNCHANGED <<proc, start_time>>
           [] OTHER -> pc' = "except" /\ UNCHANGED <<result, outcome, proc, start_time>>
    /\ UNCHANGED <<auxVars, mode, fs, tunnel_cwd, termSent, waited, pipe, eof, nWritten, scanVars, now>>

\* for line in iter(proc.stdout.readline, ""): readline blocks until a line
\* or end of file; decoding the line may raise
LoginReadLine ==
    /\ mode = "login" /\ pc = "readline"
    /\ \/ /\ pipe # <<>>
          /\ line' = Head(pipe)
          /\ pipe' = Tail(pipe)
          /\ pc' = "deadline"
          /\ UNCHANGED outcome
       \/ /\ pipe # <<>>
          /\ pipe' = Tail(pipe)
          /\ pc' = "except"
          /\ UNCHANGED <<line, outcome>>
       \/ /\ pipe = <<>> /\ eof
          /\ pc' = "after"
          /\ outcome' = "eof"
          /\ UNCHANGED <<line, pipe>>
    /\ UNCHANGED <<auxVars, mode, result, fs, tunnel_cwd, proc, termSent, waited, eof, nWritten,
                   scanned, auth_url_found, auth_code_found, tunnel_url, shown, presented,
                   timeVars>>

\* LoginDeadline without proc.wait(): the timeout path signals and returns
LoginDeadline_NoWait ==
    /\ mode = "login" /\ pc = "deadline"
    /\ IF now - start_time > timeout_seconds
       THEN ReturnFailure("timeout") /\ termSent' = TRUE
       ELSE pc' = "scan" /\ UNCHANGED <<result, outcome, termSent>>
    /\ UNCHANGED <<auxVars, mode, fs, tunnel_cwd, proc, waited, pipe, eof, nWritten,
                   scanVars, timeVars>>

\* LoginDeadline with the check left out: every line read is scanned
LoginDeadline_Skipped ==
    /\ mode = "login" /\ pc = "deadline"
    /\ pc' = "scan" /\ UNCHANGED outcome
    /\ UNCHANGED <<auxVars, mode, result, fs, tunnel_cwd, procVars, scanVars, timeVars>>

\* if time.time() - start_time > timeout_seconds: terminate, wait, return False
LoginDeadline ==
    /\ mode = "login" /\ pc = "deadline"
    /\ IF now - start_time > timeout_seconds
       THEN pc' = "terminate" /\ outcome' = "timeout"
       ELSE pc' = "scan" /\ UNCHANGED outcome
    /\ UNCHANGED <<auxVars, mode, result, fs, tunnel_cwd, procVars, scanVars, timeVars>>

\* LoginScan without the `if not auth_url_found` / `if not auth_code_found`
\* guards: a later match replaces the token
LoginScan_Overwrite ==
    /\ mode = "login" /\ pc = "scan"
    /\ LET um == UrlReSearch(line)
           cm == CodeReSearch(line)
           u == IF um # <<>> /\ HasDevicePath(um) THEN um ELSE auth_url_found
           c == IF cm # <<>> THEN cm ELSE auth_code_found
       IN  /\ auth_url_found' = u
           /\ auth_code_found' = c
           /\ pc' = IF u # <<>> /\ c # <<>> THEN "present" ELSE "poll"
    /\ scanned' = Append(scanned, line)
    /\ UNCHANGED <<auxVars, mode, result, outcome, fs, tunnel_cwd, procVars, line, tunnel_url,
                   shown, presented, timeVars>>

\* LoginScan with `if auth_url_found or auth_code_found` before the presenter
LoginScan_EitherToken ==
    /\ mode = "login" /\ pc = "scan"
    /\ LET um == UrlReSearch(line)
           cm == CodeReSearch(line)
           u == IF auth_url_found = <<>> /\ um # <<>> /\ HasDevicePath(um)
                THEN um ELSE auth_url_found
           c == IF auth_code_found = <<>> /\ cm # <<>>
                THEN cm ELSE auth_code_found
       IN  /\ auth_url_found' = u
           /\ auth_code_found' = c
           /\ pc' = IF u # <<>> \/ c # <<>> THEN "present" ELSE "poll"
    /\ scanned' = Append(scanned, line)
    /\ UNCHANGED <<auxVars, mode, result, outcome, fs, tunnel_cwd, procVars, line, tunnel_url,
                   shown, presented, timeVars>>

\* if not auth_url_found: ...   if not auth_code_found: ...
LoginScan ==
    /\ mode = "login" /\ pc = "scan"
    /\ LET um == UrlReSearch(line)
           cm == CodeReSearch(line)
           u == IF auth_url_found = <<>> /\ um # <<>> /\ HasDevicePath(um)
                THEN um ELSE auth_url_found
           c == IF auth_code_found = <<>> /\ cm # <<>>
                THEN cm ELSE auth_code_found
       IN  /\ auth_url_found' = u
           /\ auth_code_found' = c
           /\ pc' = IF u # <<>> /\ c # <<>> THEN "present" ELSE "poll"
    /\ scanned' = Append(scanned, line)
    /\ UNCHANGED <<auxVars, mode, result, outcome, fs, tunnel_cwd, procVars, line, tunnel_url,
                   shown, presented, timeVars>>

\* LoginPresent handing the presenter the code first and the URL second
LoginPresent_Swapped ==
    /\ mode = "login" /\ pc = "present"
    /\ shown' = Append(shown, <<auth_code_found, auth_url_found>>)
    /\ \/ /\ presented' = presented + 1
          /\ pc' = "returned"
          /\ result' = "True"
          /\ outcome' = "success"
       \/ /\ pc' = "except"
          /\ UNCHANGED <<presented, result, outcome>>
    /\ UNCHANGED <<auxVars, mode, fs, tunnel_cwd, procVars, line, scanned, auth_url_found,
                   auth_code_found, tunnel_url, timeVars>>

\* LoginPresent without the return: the loop goes on to the poll
LoginPresent_KeepsReading ==
    /\ mode = "login" /\ pc = "present"
    /\ shown' = Append(shown, <<auth_url_found, auth_code_found>>)
    /\ \/ /\ presented' = presented + 1
          /\ pc' = "poll"
          /\ UNCHANGED <<result, outcome>>
       \/ /\ pc' = "except"
          /\ UNCHANGED <<presented, result, outcome>>
    /\ UNCHANGED <<auxVars, mode, fs, tunnel_cwd, procVars, line, scanned, auth_url_found,
                   auth_code_found, tunnel_url, timeVars>>

\* display_github_auth_link(auth_url_found, auth_code_found); return True
\* the presenter may raise: the except clause takes over
LoginPresent ==
    /\ mode = "login" /\ pc = "present"
    /\ shown' = Append(shown, <<auth_url_found, auth_code_found>>)
    /\ \/ /\ presented' = presented + 1
          /\ pc' = "returned"
          /\ result' = "True"
          /\ outcome' = "success"
       \/ /\ pc' = "except"
          /\ UNCHANGED <<presented, result, outcome>>
    /\ UNCHANGED <<auxVars, mode, fs, tunnel_cwd, procVars, line, scanned, auth_url_found,
                   auth_code_found, tunnel_url, timeVars>>

\* LoginPoll taking the end of the process for a completed login
LoginPoll_ExitIsSuccess ==
    /\ mode = "login" /\ pc = "poll"
    /\ IF PollIsNone(proc)
       THEN pc' = "readline" /\ UNCHANGED <<proc, result, outcome>>
       ELSE /\ pc' = "returned"
            /\ result' = "True"
            /\ outcome' = "exited"
            /\ proc' = Poll(proc)
    /\ UNCHANGED <<auxVars, mode, fs, tunnel_cwd, termSent, waited, pipe, eof, nWritten,
                   scanVars, timeVars>>

\* LoginPoll without the break: the exit is noted and the loop goes on
LoginPoll_NoBreak ==
    /\ mode = "login" /\ pc = "poll"
    /\ IF PollIsNone(proc)
       THEN pc' = "readline" /\ UNCHANGED <<proc, outcome>>
       ELSE pc' = "readline" /\ proc' = Poll(proc) /\ outcome' = "exited"
    /\ UNCHANGED <<auxVars, mode, result, fs, tunnel_cwd, termSent, waited, pipe, eof, nWritten,
                   scanVars, timeVars>>

\* if proc.poll() is not None: break
LoginPoll ==
    /\ mode = "login" /\ pc = "poll"
    /\ IF PollIsNone(proc)
       THEN pc' = "readline" /\ UNCHANGED <<proc, outcome>>
       ELSE pc' = "after" /\ proc' = Poll(proc) /\ outcome' = "exited"
    /\ UNCHANGED <<auxVars, mode, result, fs, tunnel_cwd, termSent, waited, pipe, eof, nWritten,
                   scanVars, timeVars>>

\* LoginAfterLoop with `if not (auth_url_found or auth_code_found)`
LoginAfterLoop_Or ==
    /\ mode = "login" /\ pc = "after"
    /\ IF ~(auth_url_found # <<>> \/ auth_code_found # <<>>)
       THEN IF PollIsNone(proc)
            THEN pc' = "terminate" /\ UNCHANGED <<result, outcome, proc>>
            ELSE ReturnFailure(outcome) /\ proc' = Poll(proc)
       ELSE /\ pc' = "returned"
            /\ result' = "True"
            /\ UNCHANGED <<outcome, proc>>
    /\ UNCHANGED <<auxVars, mode, fs, tunnel_cwd, termSent, waited, pipe, eof, nWritten,
                   scanVars, timeVars>>

\* LoginAfterLoop returning False without terminate and wait
LoginAfterLoop_NoTerminate ==
    /\ mode = "login" /\ pc = "after"
    /\ IF ~(auth_url_found # <<>> /\ auth_code_found # <<>>)
       THEN ReturnFailure(outcome) /\ proc' = Poll(proc)
       ELSE /\ pc' = "returned"
            /\ result' = "True"
            /\ UNCHANGED <<outcome, proc>>
    /\ UNCHANGED <<auxVars, mode, fs, tunnel_cwd, termSent, waited, pipe, eof, nWritten,
                   scanVars, timeVars>>

\* after the loop: if not (auth_url_found and auth_code_found): if
\* proc.poll() is None: terminate, wait; return False.  return True otherwise.
LoginAfterLoop ==
    /\ mode = "login" /\ pc = "after"
    /\ IF ~(auth_url_found # <<>> /\ auth_code_found # <<>>)
       THEN IF PollIsNone(proc)
            THEN pc' = "terminate" /\ UNCHANGED <<result, outcome, proc>>
            ELSE ReturnFailure(outcome) /\ proc' = Poll(proc)
       ELSE /\ pc' = "returned"
            /\ result' = "True"
            /\ UNCHANGED <<outcome, proc>>
    /\ UNCHANGED <<auxVars, mode, fs, tunnel_cwd, termSent, waited, pipe, eof, nWritten,
                   scanVars, timeVars>>

----------------------------------------------------------------------------
(* connect: launch and monitoring *)

\* proc = subprocess.Popen(cmd_list, stdout=PIPE, ..., cwd=project_path_for_tunnel_cwd);
\* start_time = time.time().  With stdout=PIPE proc.stdout is never None, so
\* the branch of line 399 is not taken.
ConnectSpawn ==
    /\ mode = "connect" /\ pc = "spawn"
    /\ \E r \in PopenOutcomes :
         CASE r = "ok" -> /\ proc' = "running"
                          /\ start_time' = now
                          /\ pc' = "readline"
                          /\ UNCHANGED <<result, outcome>>
           [] r = "fnf" -> ReturnFailure("notfound") /\ UNCHANGED <<proc, start_time>>
           [] OTHER -> pc' = "except" /\ UNCHANGED <<result, outcome, proc, start_time>>
    /\ UNCHANGED <<auxVars, mode, fs, tunnel_cwd, termSent, waited, pipe, eof, nWritten, scanVars, now>>

\* for line in iter(proc.stdout.readline, ""):
ConnectReadLine ==
    /\ mode = "connect" /\ pc = "readline"
    /\ \/ /\ pipe # <<>>
          /\ line' = Head(pipe)
          /\ pipe' = Tail(pipe)
          /\ pc' = "deadline"
          /\ UNCHANGED outcome
       \/ /\ pipe # <<>>
          /\ pipe' = Tail(pipe)
          /\ pc' = "except"
          /\ UNCHANGED <<line, outcome>>
       \/ /\ pipe = <<>> /\ eof
          /\ pc' = "after"
          /\ outcome' = "eof"
          /\ UNCHANGED <<line, pipe>>
    /\ UNCHANGED <<auxVars, mode, result, fs, tunnel_cwd, proc, termSent, waited, eof, nWritten,
                   scanned, auth_url_found, auth_code_found, tunnel_url, shown, presented,
                   timeVars>>

\* ConnectDeadline measuring from the previous line: start_time is reset on
\* every line that arrives in time
ConnectDeadline_PerLine ==
    /\ mode = "connect" /\ pc = "deadline"
    /\ IF now - start_time > timeout_seconds
       THEN pc' = "terminate" /\ outcome' = "timeout" /\ UNCHANGED start_time
       ELSE pc' = "scan" /\ start_time' = now /\ UNCHANGED outcome
    /\ UNCHANGED <<auxVars, mode, result, fs, tunnel_cwd, procVars, scanVars, now>>

\* if time.time() - start_time > timeout_seconds: terminate, wait, return None
ConnectDeadline ==
    /\ mode = "connect" /\ pc = "deadline"
    /\ IF now - start_time > timeout_seconds
       THEN pc' = "terminate" /\ outcome' = "timeout"
       ELSE pc' = "scan" /\ UNCHANGED outcome
    /\ UNCHANGED <<auxVars, mode, result, fs, tunnel_cwd, procVars, scanVars, timeVars>>

\* m = url_re.search(line); if m: tunnel_url = m.group(0)
ConnectScan ==
    /\ mode = "connect" /\ pc = "scan"
    /\ LET m == TunnelReSearch(line)
       IN  IF m # <<>>
           THEN tunnel_url' = m /\ pc' = "present"
           ELSE pc' = "poll" /\ UNCHANGED tunnel_url
    /\ scanned' = Append(scanned, line)
    /\ UNCHANGED <<auxVars, mode, result, outcome, fs, tunnel_cwd, procVars, line, auth_url_found,
                   auth_code_found, shown, presented, timeVars>>

\* display_vscode_connection_options(tunnel_url, name); return proc
\* the presenter may raise: the except clause takes over
ConnectPresent ==
    /\ mode = "connect" /\ pc = "present"
    /\ shown' = Append(shown, <<tunnel_url, "name">>)
    /\ \/ /\ presented' = presented + 1
          /\ pc' = "returned"
          /\ result' = "handle"
          /\ outcome' = "success"
       \/ /\ pc' = "except"
          /\ UNCHANGED <<presented, result, outcome>>
    /\ UNCHANGED <<auxVars, mode, fs, tunnel_cwd, procVars, line, scanned, auth_url_found,
                   auth_code_found, tunnel_url, timeVars>>

\* ConnectPoll returning proc when the process has exited
ConnectPoll_ReturnsHandle ==
    /\ mode = "connect" /\ pc = "poll"
    /\ IF PollIsNone(proc)
       THEN pc' = "readline" /\ UNCHANGED <<proc, pipe, result, outcome>>
       ELSE /\ pc' = "returned"
            /\ result' = "handle"
            /\ outcome' = "exited"
            /\ proc' = Poll(proc)
            /\ pipe' = <<>>
    /\ UNCHANGED <<auxVars, mode, fs, tunnel_cwd, termSent, waited, eof, nWritten,
                   scanVars, timeVars>>

\* if proc.poll() is not None: proc.stdout.read(); return None
ConnectPoll ==
    /\ mode = "connect" /\ pc = "poll"
    /\ IF PollIsNone(proc)
       THEN pc' = "readline" /\ UNCHANGED <<proc, pipe, result, outcome>>
       ELSE ReturnFailure("exited") /\ proc' = Poll(proc) /\ pipe' = <<>>
    /\ UNCHANGED <<auxVars, mode, fs, tunnel_cwd, termSent, waited, eof, nWritten,
                   scanVars, timeVars>>

\* ConnectAfterLoop without terminate and wait in the else branch
ConnectAfterLoop_NoTerminate ==
    /\ mode = "connect" /\ pc = "after"
    /\ ReturnFailure(outcome)
    /\ proc' = Poll(proc)
    /\ UNCHANGED <<auxVars, mode, fs, tunnel_cwd, termSent, waited, pipe, eof, nWritten,
                   scanVars, timeVars>>

\* EOF reached: if proc.poll() is not None: (log) else: terminate, wait;
\* return None
ConnectAfterLoop ==
    /\ mode = "connect" /\ pc = "after"
    /\ IF PollIsNone(proc)
       THEN pc' = "terminate" /\ UNCHANGED <<result, outcome, proc>>
       ELSE ReturnFailure(outcome) /\ proc' = Poll(proc)
    /\ UNCHANGED <<auxVars, mode, fs, tunnel_cwd, termSent, waited, pipe, eof, nWritten,
                   scanVars, timeVars>>

----------------------------------------------------------------------------
(* Specification *)

LoginStep ==
    \/ Login \/ LoginCheckCli \/ LoginDownload \/ LoginRecheck \/ LoginSpawn
    \/ LoginReadLine \/ LoginDeadline \/ LoginScan \/ LoginPresent \/ LoginPoll
    \/ LoginAfterLoop

ConnectStep ==
    \/ Connect \/ ConnectDownload \/ ConnectGit \/ ConnectPython \/ ConnectProject
    \/ ConnectCheckCli \/ ConnectRedownload \/ ConnectRecheck \/ ConnectSpawn
    \/ ConnectReadLine \/ ConnectDeadline \/ ConnectScan \/ ConnectPresent
    \/ ConnectPoll \/ ConnectAfterLoop

\* the steps of the calling thread
DriverStep == LoginStep \/ ConnectStep \/ Terminate \/ Wait \/ ExceptHandler

\* the steps of the environment
EnvStep == ProcWrite \/ ProcCloseStdout \/ ProcExit \/ Tick \/ Interrupt

Next == DriverStep \/ EnvStep

Spec == Init /\ [][Next]_vars

\* The calling thread runs whenever it is not blocked (in readline or in
\* wait), and a process that was sent the terminate signal exits.
FairSpec ==
    /\ Spec
    /\ WF_vars(DriverStep)
    /\ WF_vars(ProcExit /\ termSent)

----------------------------------------------------------------------------
(* connect: the command line of the tunnel.  An extension identifier is a  *)
(* number of 1..MaxExt; the numbers are in the order in which sorted()     *)
(* puts the identifiers.                                                   *)

\* the identifiers in use
ExtIds == 1..MaxExt

\* DEFAULT_EXTENSIONS, one identifier standing for the ten of the source
DEFAULT_EXTENSIONS == {2}

\* the values of the `extensions` argument: lists of up to MaxExtLen
\* identifiers, duplicates allowed; None and [] are both falsy and both <<>>
ExtensionArgs == UNION {[1..n -> ExtIds] : n \in 0..MaxExtLen}

\* final_extensions: set(); update(DEFAULT_EXTENSIONS); update(extensions)
final_extensions(include_default_extensions, extensions) ==
    (IF include_default_extensions THEN DEFAULT_EXTENSIONS ELSE {})
        \cup {extensions[k] : k \in 1..Len(extensions)}

\* sorted(list(S))
RECURSIVE sorted(_)
sorted(S) ==
    IF S = {} THEN <<>>
    ELSE LET m == CHOOSE x \in S : \A y \in S : x <= y
         IN  <<m>> \o sorted(S \ {m})

\* for ext_id in ids: cmd_list.extend(["--install-extension", ext_id])
RECURSIVE extend_flags(_, _)
extend_flags(cmd, ids) ==
    IF ids = <<>> THEN cmd
    ELSE extend_flags(cmd \o <<"--install-extension", Head(ids)>>, Tail(ids))

\* the command line up to the tunnel name
cmd_base(cli_exe_for_popen, name) ==
    <<cli_exe_for_popen, "tunnel", "--accept-server-license-terms", "--name", name>>

\* cmd_list with the flags in the order of the arguments: the defaults, then
\* `extensions` as given
cmd_list_InputOrder(cli_exe_for_popen, name, include_default_extensions, extensions) ==
    extend_flags(cmd_base(cli_exe_for_popen, name),
                 (IF include_default_extensions THEN sorted(DEFAULT_EXTENSIONS) ELSE <<>>)
                     \o extensions)

\* cmd_list = [cli, "tunnel", ..., name]; if final_extensions: for ext_id in
\* sorted(list(final_extensions)): cmd_list.extend([...])
cmd_list(cli_exe_for_popen, name, include_default_extensions, extensions) ==
    LET fe == final_extensions(include_default_extensions, extensions)
    IN  IF fe # {}
        THEN extend_flags(cmd_base(cli_exe_for_popen, name), sorted(fe))
        ELSE cmd_base(cli_exe_for_popen, name)

\* two connect calls, each with its extension arguments, the command line of
\* neither built yet
CmdInit ==
    /\ Idle /\ is_executable(fs)
    /\ cmd_calls \in [{1, 2} -> [include_default_extensions : BOOLEAN,
                                 extensions : ExtensionArgs,
                                 cmd_list : {<<>>}]]
    /\ git_call = <<>>
    /\ cli_disk = <<>>
    /\ dl = <<>>
    /\ proj = <<>>
    /\ py = <<>>
    /\ pre = <<>>

\* one of the calls builds its command line
BuildCommand ==
    /\ \E i \in DOMAIN cmd_calls :
         /\ cmd_calls[i].cmd_list = <<>>
         /\ cmd_calls' = [cmd_calls EXCEPT ![i].cmd_list =
                             cmd_list("./code/code", "colab",
                                      cmd_calls[i].include_default_extensions,
                                      cmd_calls[i].extensions)]
    /\ UNCHANGED <<driverVars, git_call, cli_disk, dl, proj, py, pre>>

CmdSpec == CmdInit /\ [][BuildCommand]_vars

----------------------------------------------------------------------------
(* login: the scan of one line of any shape.  The process may write any    *)
(* text; here the call has just read its first line, one of ScanLines.     *)

\* a hyphenated token: a and b characters of [A-Z0-9] around a hyphen
CodeToken(a, b) == Rep(a, "U") \o <<"-">> \o Rep(b, "U")

\* "https://example.com"
UrlOther == <<"http", "l">>

\* lines with one hyphenated token whose groups have CodeMin - 1 to MaxGroup
\* characters, alone, after a word and a blank, or with lowercase letters
\* attached before or after it
CodeLines ==
    {p \o CodeToken(a, b) \o q :
        p \in {<<>>, <<"l", "sp">>, <<"l">>}, q \in {<<>>, <<"l">>},
        a \in (CodeMin - 1)..MaxGroup, b \in (CodeMin - 1)..MaxGroup}

\* lines with one or two URLs separated by a blank, after nothing or a word,
\* before nothing or a code
UrlLines ==
    {p \o u \o q :
        p \in {<<>>, <<"l", "sp">>}, q \in {<<>>, <<"sp">> \o CodeA},
        u \in {UrlA, UrlB, UrlOther}
              \cup {u1 \o <<"sp">> \o u2 : u1 \in {UrlA, UrlB, UrlOther},
                                         u2 \in {UrlA, UrlB, UrlOther}}}

ScanLines == CodeLines \cup UrlLines

\* login inside its loop: the process is running, the first line was read in
\* time and is about to be scanned
ScanInit ==
    /\ mode = "login"
    /\ pc = "scan"
    /\ result = "none"
    /\ outcome = "none"
    /\ fs = [dir |-> TRUE, bin |-> TRUE, tarball |-> FALSE]
    /\ tunnel_cwd = "cwd"
    /\ proc = "running"
    /\ termSent = FALSE
    /\ waited = FALSE
    /\ pipe = <<>>
    /\ eof = FALSE
    /\ nWritten = 1
    /\ now = 0
    /\ start_time = 0
    /\ line \in ScanLines
    /\ scanned = <<>>
    /\ auth_url_found = <<>>
    /\ auth_code_found = <<>>
    /\ tunnel_url = <<>>
    /\ shown = <<>>
    /\ presented = 0
    /\ AuxIdle

\* the line is scanned; with both tokens found the presenter is called
ScanNext == LoginScan \/ LoginPresent

ScanSpec == ScanInit /\ [][ScanNext]_vars

----------------------------------------------------------------------------
(* The git configuration step: configure_git called directly, and the step *)
(* of connect that calls it.  git_call holds the arguments, the outcomes n *)
(* and e that the two git config commands would have, who made the call    *)
(* (via), what it returned and the commands it ran.  git_on_path is what   *)
(* system.which("git") would find; configure_git runs "git" by name and    *)
(* never asks.                                                             *)

\* the values of git_user_name and of git_user_email
NameArgs == {"None", "", "Test User"}
EmailArgs == {"None", "", "test@example.com"}

\* arguments and command outcomes chosen, no call made yet
GitInit ==
    /\ Idle /\ is_executable(fs)
    /\ cmd_calls = <<>>
    /\ git_call \in [git_user_name : NameArgs, git_user_email : EmailArgs,
                     git_on_path : BOOLEAN,
                     n : CmdOutcomes, e : CmdOutcomes,
                     via : {"none"}, ret : {"none"}, cmds : {<<>>}]
    /\ cli_disk = <<>>
    /\ dl = <<>>
    /\ proj = <<>>
    /\ py = <<>>
    /\ pre = <<>>

\* configure_git(system, git_user_name, git_user_email)
CallConfigureGit ==
    /\ git_call.via = "none"
    /\ LET r == configure_git(Truthy(git_call.git_user_name),
                              Truthy(git_call.git_user_email),
                              git_call.n, git_call.e)
       IN  git_call' = [git_call EXCEPT !.via = "configure_git",
                                        !.ret = r.ret, !.cmds = r.cmds]
    /\ UNCHANGED <<driverVars, cmd_calls, cli_disk, dl, proj, py, pre>>

\* connect(git_user_name=..., git_user_email=...) reaching lines 294-295
CallConnectGit ==
    /\ git_call.via = "none"
    /\ LET r == connect_git(Truthy(git_call.git_user_name),
                            Truthy(git_call.git_user_email),
                            git_call.n, git_call.e)
       IN  git_call' = [git_call EXCEPT !.via = "connect",
                                        !.ret = r.ret, !.cmds = r.cmds]
    /\ UNCHANGED <<driverVars, cmd_calls, cli_disk, dl, proj, py, pre>>

GitNext == CallConfigureGit \/ CallConnectGit

GitSpec == GitInit /\ [][GitNext]_vars

----------------------------------------------------------------------------
(* download_vscode_cli step by step, called by two concurrent invocations  *)
(* in the same working directory.  The network, tar and the file system    *)
(* work: a step of a call fails only through what the other call did to    *)
(* the shared files.  cli_disk is [dir, bin, tarball, opener]: ./code      *)
(* exists, ./code/code is executable, vscode_cli.tar.gz is "none",         *)
(* "partial" or "full", and opener is the call that opened it last.        *)

Callers == {1, 2}

\* an operation of call c is recorded in its ops
DlDid(c, op) == [dl EXCEPT ![c].ops = Append(@, op)]

\* DlCheck without the existence test: the call always downloads
DlCheck_NoSkip(c) ==
    /\ dl[c].pc = "check"
    /\ dl' = [dl EXCEPT ![c].found = cli_disk.dir, ![c].pc = "open"]
    /\ UNCHANGED <<driverVars, cmd_calls, git_call, cli_disk, proj, py, pre>>

\* if system.path_exists(abs_cli_executable_path) and not force_download:
\*     return True
DlCheck(c) ==
    /\ dl[c].pc = "check"
    /\ dl' = IF cli_disk.dir /\ ~dl[c].force_download
             THEN [dl EXCEPT ![c].found = TRUE, ![c].pc = "done", ![c].ret = "True"]
             ELSE [dl EXCEPT ![c].found = cli_disk.dir, ![c].pc = "open"]
    /\ UNCHANGED <<driverVars, cmd_calls, git_call, cli_disk, proj, py, pre>>

\* system.download_file: requests.get, then open(destination_path, "wb"),
\* which creates the file or truncates the one that is there
DlOpen(c) ==
    /\ dl[c].pc = "open"
    /\ cli_disk' = [cli_disk EXCEPT !.tarball = "partial", !.opener = c]
    /\ dl' = [DlDid(c, "download") EXCEPT ![c].pc = "write"]
    /\ UNCHANGED <<driverVars, cmd_calls, git_call, proj, py, pre>>

\* system.download_file: the chunks are written and the file is closed.  The
\* file at the path is complete when the call that opened it last has
\* written it; a file removed since the open stays removed.  When the other
\* call truncated the file after this call had opened it, the file is
\* complete or not, depending on how far this call had written by then.
DlWrite(c) ==
    /\ dl[c].pc = "write"
    /\ \/ /\ cli_disk.tarball # "none" /\ cli_disk.opener = c
          /\ cli_disk' = [cli_disk EXCEPT !.tarball = "full"]
       \/ /\ cli_disk.tarball = "none" \/ cli_disk.opener # c
          /\ UNCHANGED cli_disk
       \/ /\ cli_disk.tarball = "partial" /\ cli_disk.opener # c
          /\ cli_disk' = [cli_disk EXCEPT !.tarball = "full"]
    /\ dl' = [dl EXCEPT ![c].pc = "extract"]
    /\ UNCHANGED <<driverVars, cmd_calls, git_call, proj, py, pre>>

\* tar_exe = system.which("tar"); extract_result = system.run_command(
\* [tar_exe, "-xf", abs_cli_tarball_path]): tar fails on a missing or
\* incomplete archive
DlExtract(c) ==
    /\ dl[c].pc = "extract"
    /\ IF cli_disk.tarball = "full"
       THEN /\ cli_disk' = [cli_disk EXCEPT !.dir = TRUE, !.bin = TRUE]
            /\ dl' = [DlDid(c, "extract") EXCEPT ![c].pc = "remove", ![c].rc = "ok"]
       ELSE /\ dl' = [DlDid(c, "extract") EXCEPT ![c].pc = "remove", ![c].rc = "fail"]
            /\ UNCHANGED cli_disk
    /\ UNCHANGED <<driverVars, cmd_calls, git_call, proj, py, pre>>

\* system.remove_file(abs_cli_tarball_path, missing_ok=True, log_success=False)
DlRemove(c) ==
    /\ dl[c].pc = "remove"
    /\ cli_disk' = [cli_disk EXCEPT !.tarball = "none"]
    /\ dl' = [DlDid(c, "remove") EXCEPT ![c].pc = "finish"]
    /\ UNCHANGED <<driverVars, cmd_calls, git_call, proj, py, pre>>

\* if extract_result.returncode != 0: return False; if not
\* system.path_exists(abs_cli_executable_path): return False; chmod; return True
DlFinish(c) ==
    /\ dl[c].pc = "finish"
    /\ IF dl[c].rc # "ok" \/ ~cli_disk.dir
       THEN /\ dl' = [dl EXCEPT ![c].pc = "done", ![c].ret = "False"]
            /\ UNCHANGED cli_disk
       ELSE /\ cli_disk' = [cli_disk EXCEPT !.bin = TRUE]
            /\ dl' = [DlDid(c, "chmod") EXCEPT ![c].pc = "done", ![c].ret = "True"]
    /\ UNCHANGED <<driverVars, cmd_calls, git_call, proj, py, pre>>

\* two calls about to start, each with its force_download argument; ./code
\* is absent, or present with or without an executable binary
DlInit ==
    /\ Idle /\ is_executable(fs)
    /\ cmd_calls = <<>>
    /\ git_call = <<>>
    /\ cli_disk \in [dir : BOOLEAN, bin : BOOLEAN, tarball : {"none"}, opener : {0}]
    /\ cli_disk.bin => cli_disk.dir
    /\ dl \in [Callers -> [pc : {"check"}, force_download : BOOLEAN, found : {FALSE},
                           rc : {"none"}, ret : {"none"}, ops : {<<>>}]]
    /\ proj = <<>>
    /\ py = <<>>
    /\ pre = <<>>

DlNext ==
    \E c \in Callers :
        \/ DlCheck(c) \/ DlOpen(c) \/ DlWrite(c) \/ DlExtract(c)
        \/ DlRemove(c) \/ DlFinish(c)

DlSpec == DlInit /\ [][DlNext]_vars

----------------------------------------------------------------------------
(* setup_project_directory, one call.  proj holds what the System calls of *)
(* the call would answer (exists, mk, cd, git, py_found, venv_cmd,         *)
(* exe_found, pip), the position of the call (pc), the process's working   *)
(* directory (cwd), whether the project directory was created (made), the  *)
(* steps performed (ops), the value the try block returns (pending) and    *)
(* the value the caller receives (ret).                                    *)

\* a step of the call is recorded in ops
ProjDid(op) == [proj EXCEPT !.ops = Append(@, op)]

\* the try block is left with value v: the finally clause runs next
ProjLeave(p, v) == [p EXCEPT !.pending = v, !.pc = "finally"]

\* _create_virtual_environment: "True", "False", or "raise" when one of its
\* run_command calls raises
create_virtual_environment(py_found, venv_cmd, exe_found, pip) ==
    IF ~py_found THEN "False"
    ELSE IF venv_cmd = "raise" THEN "raise"
    ELSE IF venv_cmd = "fail" THEN "False"
    ELSE IF ~exe_found THEN "False"
    ELSE IF pip = "raise" THEN "raise"
    ELSE IF pip = "fail" THEN "False"
    ELSE "True"

\* ProjCheck without the existence test
ProjCheck_NoSkip ==
    /\ proj.pc = "check"
    /\ proj' = [proj EXCEPT !.pc = "mkdir"]
    /\ UNCHANGED <<driverVars, cmd_calls, git_call, cli_disk, dl, py, pre>>

\* if system.path_exists(project_path): return project_path
ProjCheck ==
    /\ proj.pc = "check"
    /\ proj' = IF proj.exists THEN ProjLeave(proj, "path")
               ELSE [proj EXCEPT !.pc = "mkdir"]
    /\ UNCHANGED <<driverVars, cmd_calls, git_call, cli_disk, dl, py, pre>>

\* ProjMakeDirs going on after make_dirs reported failure
ProjMakeDirs_IgnoreFailure ==
    /\ proj.pc = "mkdir"
    /\ proj' = CASE proj.mk = "ok" ->
                      [ProjDid("make_dirs") EXCEPT !.made = TRUE, !.pc = "chdir"]
                 [] proj.mk = "fail" ->
                      [ProjDid("make_dirs") EXCEPT !.pc = "chdir"]
                 [] OTHER -> ProjLeave(ProjDid("make_dirs"), "None")
    /\ UNCHANGED <<driverVars, cmd_calls, git_call, cli_disk, dl, py, pre>>

\* mk_success, mk_err = system.make_dirs(project_path)
\* if not mk_success: return None       (an exception: except -> return None)
ProjMakeDirs ==
    /\ proj.pc = "mkdir"
    /\ proj' = IF proj.mk = "ok"
               THEN [ProjDid("make_dirs") EXCEPT !.made = TRUE, !.pc = "chdir"]
               ELSE ProjLeave(ProjDid("make_dirs"), "None")
    /\ UNCHANGED <<driverVars, cmd_calls, git_call, cli_disk, dl, py, pre>>

\* system.change_cwd(project_path)      (its result is not looked at)
ProjChangeCwd ==
    /\ proj.pc = "chdir"
    /\ proj' = [ProjDid("change_cwd") EXCEPT
                   !.cwd = IF proj.cd = "ok" THEN "project" ELSE @,
                   !.pc = "git"]
    /\ UNCHANGED <<driverVars, cmd_calls, git_call, cli_disk, dl, py, pre>>

\* if not _initialize_git_repo(system, venv_name): return project_path
\* (git init raising: except -> return None)
ProjGitInit ==
    /\ proj.pc = "git"
    /\ proj' = CASE proj.git = "ok" ->
                      [ProjDid("_initialize_git_repo") EXCEPT !.pc = "venv"]
                 [] proj.git = "fail" ->
                      ProjLeave(ProjDid("_initialize_git_repo"), "path")
                 [] OTHER -> ProjLeave(ProjDid("_initialize_git_repo"), "None")
    /\ UNCHANGED <<driverVars, cmd_calls, git_call, cli_disk, dl, py, pre>>

\* if not _create_virtual_environment(...): logger.error(...)
\* return project_path                  (an exception: except -> return None)
ProjVenv ==
    /\ proj.pc = "venv"
    /\ LET r == create_virtual_environment(proj.py_found, proj.venv_cmd,
                                           proj.exe_found, proj.pip)
           p == [ProjDid("_create_virtual_environment") EXCEPT !.venv_ret = r]
       IN  proj' = IF r = "raise" THEN ProjLeave(p, "None") ELSE ProjLeave(p, "path")
    /\ UNCHANGED <<driverVars, cmd_calls, git_call, cli_disk, dl, py, pre>>

\* ProjFinally without the call of _restore_cwd
ProjFinally_NoRestore ==
    /\ proj.pc = "finally"
    /\ proj' = [proj EXCEPT !.ret = proj.pending, !.pc = "done"]
    /\ UNCHANGED <<driverVars, cmd_calls, git_call, cli_disk, dl, py, pre>>

\* finally: _restore_cwd(system, original_cwd); the caller gets the value.
\* _restore_cwd changes directory only when the current one differs from
\* original_cwd; the change back to the directory the call started in, which
\* exists, succeeds.
ProjFinally ==
    /\ proj.pc = "finally"
    /\ proj' = IF proj.cwd # "original"
               THEN [ProjDid("restore_cwd") EXCEPT !.cwd = "original",
                         !.ret = proj.pending, !.pc = "done"]
               ELSE [proj EXCEPT !.ret = proj.pending, !.pc = "done"]
    /\ UNCHANGED <<driverVars, cmd_calls, git_call, cli_disk, dl, py, pre>>

\* the answers chosen, the call about to start in the original directory
ProjInit ==
    /\ Idle /\ is_executable(fs)
    /\ cmd_calls = <<>>
    /\ git_call = <<>>
    /\ cli_disk = <<>>
    /\ dl = <<>>
    /\ py = <<>>
    /\ pre = <<>>
    /\ proj \in [exists : BOOLEAN, mk : CmdOutcomes, cd : {"ok", "fail"},
                 git : CmdOutcomes, py_found : BOOLEAN, venv_cmd : CmdOutcomes,
                 exe_found : BOOLEAN, pip : CmdOutcomes,
                 pc : {"check"}, cwd : {"original"}, made : {FALSE},
                 ops : {<<>>}, venv_ret : {"none"}, pending : {"none"},
                 ret : {"none"}]

ProjNext ==
    \/ ProjCheck \/ ProjMakeDirs \/ ProjChangeCwd
    \/ ProjGitInit \/ ProjVenv \/ ProjFinally

ProjSpec == ProjInit /\ [][ProjNext]_vars

----------------------------------------------------------------------------
(* PythonEnvManager.setup_and_get_python_executable, one call, with the    *)
(* install_pyenv it makes.  py holds the arguments and the disk at entry   *)
(* (installed0: the pyenv executable is there; force: force_reinstall_     *)
(* python), the disk as the call proceeds (pyenv, root_exists, script: the *)
(* installer script file is "none", "partial" or "full"), the position of  *)
(* the call (pc), the steps of setup_and_get_python_executable performed   *)
(* (steps), the System calls install_pyenv made (ops), how the download    *)
(* went (dl), whether the version was listed (present), the step that      *)
(* failed or raised (failed) and the result (ret: "Ok", "Err", or "raise"  *)
(* when a run_command raises, which nothing in python_env.py catches).     *)

\* truthiness of a SystemOperationResult: `if not res` is taken on an Err
IsOk(r) == r = "ok"

\* a step of setup_and_get_python_executable begins
PyStep(p, step) == [p EXCEPT !.steps = Append(@, step)]

\* a System call made by install_pyenv
PyOp(p, op) == [p EXCEPT !.ops = Append(@, op)]

\* the call ends in its current step with an Err result, or with the
\* exception of a run_command
PyFail(p, r) ==
    [p EXCEPT !.failed = p.steps[Len(p.steps)], !.ret = r, !.pc = "done"]

\* the outcomes of `pyenv versions --bare`
VersionsOutcomes == {"present", "absent", "fail", "raise"}

\* if not self.is_pyenv_installed: install_pyenv_res = self.install_pyenv()
PyCheckPyenv ==
    /\ py.pc = "start"
    /\ py' = IF py.pyenv THEN [py EXCEPT !.pc = "versions"]
             ELSE [PyStep(py, "install_pyenv") EXCEPT !.pc = "ip_mkdir"]
    /\ UNCHANGED <<driverVars, cmd_calls, git_call, cli_disk, dl, proj, pre>>

\* install_pyenv: if not dir_exists(pyenv_root): mkd_res = make_dirs(...)
\* if not mkd_res: return Err
PyIpMakeDirs ==
    /\ py.pc = "ip_mkdir"
    /\ \/ /\ py.root_exists
          /\ py' = [py EXCEPT !.pc = "ip_download"]
       \/ /\ ~py.root_exists
          /\ \E mkd_res \in {"ok", "fail"} :
               py' = IF IsOk(mkd_res)
                     THEN [PyOp(py, "make_dirs") EXCEPT !.root_exists = TRUE,
                                                        !.pc = "ip_download"]
                     ELSE PyFail(PyOp(py, "make_dirs"), "Err")
    /\ UNCHANGED <<driverVars, cmd_calls, git_call, cli_disk, dl, proj, pre>>

\* install_pyenv: download_res = self.system.download_file(url, script path);
\* a failed download leaves no file or an incomplete one
PyIpDownload ==
    /\ py.pc = "ip_download"
    /\ \E o \in {"ok", "fail_nofile", "fail_partial"} :
         py' = [PyOp(py, "download_file") EXCEPT
                   !.dl = o,
                   !.script = CASE o = "ok" -> "full"
                                [] o = "fail_partial" -> "partial"
                                [] OTHER -> "none",
                   !.pc = "ip_downloaded"]
    /\ UNCHANGED <<driverVars, cmd_calls, git_call, cli_disk, dl, proj, pre>>

\* PyIpDownloaded not noticing that the download failed
PyIpDownloaded_AlwaysOk ==
    /\ py.pc = "ip_downloaded"
    /\ py' = [py EXCEPT !.pc = "ip_bash"]
    /\ UNCHANGED <<driverVars, cmd_calls, git_call, cli_disk, dl, proj, pre>>

\* install_pyenv: if not download_res: self.system.remove_file(script path,
\* missing_ok=True, ...); return Err
PyIpDownloaded ==
    /\ py.pc = "ip_downloaded"
    /\ py' = IF ~IsOk(py.dl)
             THEN PyFail([PyOp(py, "remove_file") EXCEPT !.script = "none"], "Err")
             ELSE [py EXCEPT !.pc = "ip_bash"]
    /\ UNCHANGED <<driverVars, cmd_calls, git_call, cli_disk, dl, proj, pre>>

\* install_pyenv: bash_exe = self.system.which("bash")
\* if not bash_exe: remove_file(script path); return Err
PyIpBash ==
    /\ py.pc = "ip_bash"
    /\ \E bash_exe \in BOOLEAN :
         py' = IF ~bash_exe
               THEN PyFail([PyOp(py, "remove_file") EXCEPT !.script = "none"], "Err")
               ELSE [py EXCEPT !.pc = "ip_run"]
    /\ UNCHANGED <<driverVars, cmd_calls, git_call, cli_disk, dl, proj, pre>>

\* install_pyenv: installer_proc_result = run_command([bash_exe, script]);
\* remove_file(script path); returncode != 0: return Err; the pyenv
\* executable not there: return Err; else Ok
PyIpRun ==
    /\ py.pc = "ip_run"
    /\ \E o \in CmdOutcomes, exe \in BOOLEAN :
         LET ran == PyOp(py, "run_installer")
             removed == [PyOp(ran, "remove_file") EXCEPT !.script = "none"]
         IN  py' = CASE o = "raise" -> PyFail(ran, "raise")
                     [] o = "fail" -> PyFail(removed, "Err")
                     [] OTHER -> IF exe
                                 THEN [removed EXCEPT !.pyenv = TRUE, !.pc = "versions"]
                                 ELSE PyFail(removed, "Err")
    /\ UNCHANGED <<driverVars, cmd_calls, git_call, cli_disk, dl, proj, pre>>

\* version_installed_check_res = self.is_python_version_installed(version)
\* if not version_installed_check_res: return Err
PyVersions ==
    /\ py.pc = "versions"
    /\ LET p == PyStep(py, "versions")
       IN  IF ~py.pyenv THEN py' = PyFail(p, "Err")
           ELSE \E o \in VersionsOutcomes :
                  py' = CASE o = "raise" -> PyFail(p, "raise")
                          [] o = "fail" -> PyFail(p, "Err")
                          [] OTHER -> [p EXCEPT !.present = (o = "present"),
                                                !.pc = "install"]
    /\ UNCHANGED <<driverVars, cmd_calls, git_call, cli_disk, dl, proj, pre>>

\* PyInstall installing whether or not the version is there
PyInstall_Always ==
    /\ py.pc = "install"
    /\ \E o \in CmdOutcomes :
         LET p == PyStep(py, "install")
         IN  py' = CASE o = "raise" -> PyFail(p, "raise")
                     [] o = "fail" -> PyFail(p, "Err")
                     [] OTHER -> [p EXCEPT !.pc = "global"]
    /\ UNCHANGED <<driverVars, cmd_calls, git_call, cli_disk, dl, proj, pre>>

\* if not is_python_already_installed or force_reinstall_python:
\*     install_op_res = self.install_python_version(...)
\*     if not install_op_res: return Err
PyInstall ==
    /\ py.pc = "install"
    /\ \/ /\ ~py.present \/ py.force
          /\ \E o \in CmdOutcomes :
               LET p == PyStep(py, "install")
               IN  py' = CASE o = "raise" -> PyFail(p, "raise")
                           [] o = "fail" -> PyFail(p, "Err")
                           [] OTHER -> [p EXCEPT !.pc = "global"]
       \/ /\ py.present /\ ~py.force
          /\ py' = [py EXCEPT !.pc = "global"]
    /\ UNCHANGED <<driverVars, cmd_calls, git_call, cli_disk, dl, proj, pre>>

\* set_global_op_res = self.set_global_python_version(python_version)
\* if not set_global_op_res: return Err
PySetGlobal ==
    /\ py.pc = "global"
    /\ \E o \in CmdOutcomes :
         LET p == PyStep(py, "global")
         IN  py' = CASE o = "raise" -> PyFail(p, "raise")
                     [] o = "fail" -> PyFail(p, "Err")
                     [] OTHER -> [p EXCEPT !.pc = "locate"]
    /\ UNCHANGED <<driverVars, cmd_calls, git_call, cli_disk, dl, proj, pre>>

\* return self.get_python_executable_path(python_version): `pyenv which
\* python` (o), then the executable is found at one of the two paths or not
PyLocate ==
    /\ py.pc = "locate"
    /\ \E o \in CmdOutcomes, found \in BOOLEAN :
         LET p == PyStep(py, "locate")
         IN  py' = CASE o = "raise" -> PyFail(p, "raise")
                     [] ~found -> PyFail(p, "Err")
                     [] OTHER -> [p EXCEPT !.ret = "Ok", !.pc = "done"]
    /\ UNCHANGED <<driverVars, cmd_calls, git_call, cli_disk, dl, proj, pre>>

\* the arguments and the disk chosen, the call about to start; ~/.pyenv
\* exists when its bin/pyenv does
PyInit ==
    /\ Idle /\ is_executable(fs)
    /\ cmd_calls = <<>>
    /\ git_call = <<>>
    /\ cli_disk = <<>>
    /\ dl = <<>>
    /\ proj = <<>>
    /\ pre = <<>>
    /\ py \in [installed0 : BOOLEAN, force : BOOLEAN, pyenv : BOOLEAN,
               root_exists : BOOLEAN, script : {"none"}, pc : {"start"},
               steps : {<<>>}, ops : {<<>>}, dl : {"none"},
               present : {FALSE}, failed : {"none"}, ret : {"none"}]
    /\ py.pyenv = py.installed0
    /\ py.pyenv => py.root_exists

PyNext ==
    \/ PyCheckPyenv \/ PyIpMakeDirs \/ PyIpDownload \/ PyIpDownloaded
    \/ PyIpBash \/ PyIpRun \/ PyVersions \/ PyInstall \/ PySetGlobal
    \/ PyLocate

PySpec == PyInit /\ [][PyNext]_vars

----------------------------------------------------------------------------
(* login and connect up to the launch of the process, with a record of     *)
(* what the call did on the way.  pre is [fs0, downloads, forced,          *)
(* project_requested, project_path]: the CLI files when the call began,    *)
(* the number of system.download_file calls made, the number of            *)
(* download_vscode_cli(force_download=True) calls made, whether connect    *)
(* was asked for a project, and what setup_project_directory returned.     *)

\* the function-level variables other than pre
otherAux == <<cmd_calls, git_call, cli_disk, dl, proj, py>>

\* 1 if the download_vscode_cli call made now reaches system.download_file
DownloadsNow(force_download) == IF download_attempted(fs, force_download) THEN 1 ELSE 0

\* login, server.py 153
PreLoginDownload ==
    /\ \E o \in CallOutcomes : LoginDownloadWith(o)
    /\ pre' = [pre EXCEPT !.downloads = @ + DownloadsNow(FALSE)]
    /\ UNCHANGED otherAux

\* connect, server.py 290
PreConnectDownload ==
    /\ \E o \in CallOutcomes : ConnectDownloadWith(o)
    /\ pre' = [pre EXCEPT !.downloads = @ + DownloadsNow(FALSE)]
    /\ UNCHANGED otherAux

\* connect, server.py 323-343
PreConnectProject ==
    /\ \E requested \in BOOLEAN, created \in BOOLEAN :
         /\ ConnectProjectWith(requested, created)
         /\ pre' = [pre EXCEPT !.project_requested = requested,
                               !.project_path = IF ~requested THEN "not called"
                                                ELSE IF created THEN "path"
                                                ELSE "None"]
    /\ UNCHANGED otherAux

\* connect, server.py 362-366
PreConnectRedownload ==
    /\ \E o \in CallOutcomes : ConnectRedownloadWith(o)
    /\ pre' = [pre EXCEPT !.downloads = @ + DownloadsNow(TRUE), !.forced = @ + 1]
    /\ UNCHANGED otherAux

\* no call made yet
PreInit ==
    /\ Idle
    /\ cmd_calls = <<>>
    /\ git_call = <<>>
    /\ cli_disk = <<>>
    /\ dl = <<>>
    /\ proj = <<>>
    /\ py = <<>>
    /\ pre = [fs0 |-> fs, downloads |-> 0, forced |-> 0,
              project_requested |-> FALSE, project_path |-> "not called"]

PreNext ==
    \/ Login \/ LoginCheckCli \/ PreLoginDownload \/ LoginRecheck \/ LoginSpawn
    \/ Connect \/ PreConnectDownload \/ ConnectGit \/ ConnectPython
    \/ PreConnectProject \/ ConnectCheckCli \/ PreConnectRedownload
    \/ ConnectRecheck \/ ConnectSpawn

PreSpec == PreInit /\ [][PreNext]_vars

----------------------------------------------------------------------------
(* Properties *)

\* the required tokens have all been recognized
TokensFound ==
    IF mode = "login"
    THEN auth_url_found # <<>> /\ auth_code_found # <<>>
    ELSE tunnel_url # <<>>

\* the device-login URL the scan of line l recognizes, <<>> if none
DeviceUrlOf(l) ==
    LET um == UrlReSearch(l) IN IF um # <<>> /\ HasDevicePath(um) THEN um ELSE <<>>

\* the first device-login URL recognized in the lines of seq, in order
RECURSIVE FirstUrl(_)
FirstUrl(seq) ==
    IF seq = <<>> THEN <<>>
    ELSE IF DeviceUrlOf(Head(seq)) # <<>> THEN DeviceUrlOf(Head(seq))
    ELSE FirstUrl(Tail(seq))

\* the first code recognized in the lines of seq, in order
RECURSIVE FirstCode(_)
FirstCode(seq) ==
    IF seq = <<>> THEN <<>>
    ELSE IF CodeReSearch(Head(seq)) # <<>> THEN CodeReSearch(Head(seq))
    ELSE FirstCode(Tail(seq))

Returned == pc = "returned"
Succeeded == result \in {"True", "handle"}

----------------------------------------------------------------------------
C2_WaitBoundedByDeadline ==
    (pc = "readline" /\ now - start_time > timeout_seconds)
        ~> \/ Returned /\ result = Failure /\ proc = "reaped"
           \/ outcome = "interrupted"

\* C3: no exception leaves login or connect.
C3_NoExceptionPropagates == pc # "raised"

C5_TimeoutTerminatesAndWaits ==
    (Returned /\ outcome = "timeout") =>
        /\ termSent /\ waited
        /\ proc = "reaped"
        /\ result = Failure

\* connect has returned None on the timeout path
C5_Witness ==
    Returned /\ outcome = "timeout" /\ mode = "connect" /\ now - start_time > timeout_seconds

\* C6 (as stated): login returns True iff both tokens were recognized and the
\* presenter was invoked with them; otherwise it returns False.
C6_TrueIffInvoked ==
    (Returned /\ mode = "login") =>
        /\ result \in {"True", "False"}
        /\ (result = "True") <=>
              /\ auth_url_found # <<>> /\ auth_code_found # <<>>
              /\ shown = << <<auth_url_found, auth_code_found>> >>

\* C6 (amended): login returns True iff both tokens were recognized and the
\* presenter call with them returned normally; otherwise it returns False.
C6_TrueIffShown ==
    (Returned /\ mode = "login") =>
        /\ result \in {"True", "False"}
        /\ (result = "True") <=>
              /\ auth_url_found # <<>> /\ auth_code_found # <<>>
              /\ shown = << <<auth_url_found, auth_code_found>> >>
              /\ presented = 1

\* login has returned True after a presenter call that returned normally
C6_Witness ==
    Returned /\ mode = "login" /\ result = "True" /\ presented = 1 /\ Len(scanned) = 2

C8_FirstMatchWins ==
    /\ [][/\ (auth_url_found # <<>>) => (auth_url_found' = auth_url_found)
          /\ (auth_code_found # <<>>) => (auth_code_found' = auth_code_found)]_vars
    /\ [](mode = "login" =>
            /\ auth_url_found = FirstUrl(scanned)
            /\ auth_code_found = FirstCode(scanned)
            /\ \A k \in 1..Len(shown) :
                 shown[k] = <<FirstUrl(scanned), FirstCode(scanned)>>)

\* two lines with different device-login URLs were scanned before the code:
\* the presenter got the first URL
C8_Witness ==
    /\ mode = "login" /\ result = "True" /\ Len(scanned) = 3
    /\ DeviceUrlOf(scanned[1]) # <<>> /\ DeviceUrlOf(scanned[2]) # <<>>
    /\ DeviceUrlOf(scanned[1]) # DeviceUrlOf(scanned[2])
    /\ shown[1][1] = DeviceUrlOf(scanned[1])

\* C9: the presenter is invoked at most once per call, with the recognized
\* tokens and only once all required tokens are set; it is not invoked on the
\* timeout, premature-exit and end-of-output paths (nor without a process).
C9_PresenterOnceAfterTokens ==
    /\ Len(shown) <= 1
    /\ (shown # <<>>) =>
          /\ TokensFound
          /\ shown[1] = IF mode = "login"
                        THEN <<auth_url_found, auth_code_found>>
                        ELSE <<tunnel_url, "name">>
    /\ (outcome \in {"timeout", "exited", "eof", "nocli", "notfound"}) => (shown = <<>>)

\* the presenter was invoked once, by login, with both tokens from one line
C9_Witness ==
    /\ mode = "login" /\ Len(shown) = 1 /\ line = LineBoth
    /\ shown[1] = <<UrlA, CodeA>>

\* C10: when the process exits before the required tokens were all
\* recognized, the call returns failure; no return without all tokens is a
\* success.
C10_EarlyExitIsFailure ==
    /\ (Returned /\ outcome = "exited") => (result = Failure)
    /\ (Returned /\ ~TokensFound) => (result = Failure)

\* login returned False after the process exited with only the URL recognized
C10_Witness ==
    /\ Returned /\ mode = "login" /\ outcome = "exited" /\ result = "False"
    /\ auth_url_found # <<>> /\ auth_code_found = <<>>
    /\ now - start_time <= timeout_seconds

\* the last line scanned holds both a device-login URL and a code, and no
\* line scanned before it holds either token
BothInLastLine ==
    /\ mode = "login" /\ scanned # <<>>
    /\ LET l == scanned[Len(scanned)]
           before == SubSeq(scanned, 1, Len(scanned) - 1)
       IN  /\ DeviceUrlOf(l) # <<>> /\ CodeReSearch(l) # <<>>
           /\ FirstUrl(before) = <<>> /\ FirstCode(before) = <<>>

C13_DeadlineFixedAtStart ==
    /\ [][(start_time' # start_time) =>
             (pc = "spawn" /\ pc' = "readline" /\ start_time' = now)]_vars
    /\ [][(pc = "deadline" /\ pc' # pc /\ now - start_time > timeout_seconds) =>
             (pc' = "terminate" /\ outcome' = "timeout")]_vars

\* two lines were read and scanned in time, the third was read after the
\* deadline: timeout
C13_Witness ==
    /\ mode = "connect" /\ outcome = "timeout" /\ Returned
    /\ Len(scanned) = 2 /\ now - start_time > timeout_seconds

\* the extension identifiers of the --install-extension flags of a command
\* line, in the order of the flags
FlagIds(cmd) ==
    [n \in 1..((Len(cmd) - Len(cmd_base("", ""))) \div 2) |->
        cmd[Len(cmd_base("", "")) + 2 * n]]

\* the extension identifiers a call asks for
AskedIds(c) ==
    {c.extensions[k] : k \in 1..Len(c.extensions)}
        \cup (IF c.include_default_extensions THEN DEFAULT_EXTENSIONS ELSE {})

\* C14: the --install-extension flags of a command line carry the identifiers
\* asked for in strictly increasing order, each once; two calls that ask for
\* the same identifiers (permuted, duplicated, or repeating a default) get
\* the same command line.
C14_SortedFlagsOnce ==
    \A i \in DOMAIN cmd_calls :
        LET a == cmd_calls[i]
            ids == FlagIds(a.cmd_list)
        IN  (a.cmd_list # <<>>) =>
              /\ Len(a.cmd_list) = Len(cmd_base("", "")) + 2 * Len(ids)
              /\ \A n \in 1..Len(ids) :
                   /\ a.cmd_list[Len(cmd_base("", "")) + 2 * n - 1] = "--install-extension"
                   /\ n < Len(ids) => ids[n] < ids[n + 1]
              /\ {ids[n] : n \in 1..Len(ids)} = AskedIds(a)
              /\ \A j \in DOMAIN cmd_calls :
                   (cmd_calls[j].cmd_list # <<>> /\ AskedIds(cmd_calls[j]) = AskedIds(a))
                       => cmd_calls[j].cmd_list = a.cmd_list

\* the calls connect(extensions=[3, 1]) and connect(extensions=[1, 1]),
\* neither with the defaults: flags 1, 3 and flag 1
C14_Witness ==
    /\ DOMAIN cmd_calls = {1, 2}
    /\ ~cmd_calls[1].include_default_extensions
    /\ cmd_calls[1].extensions = <<3, 1>>
    /\ FlagIds(cmd_calls[1].cmd_list) = <<1, 3>>
    /\ ~cmd_calls[2].include_default_extensions
    /\ cmd_calls[2].extensions = <<1, 1>>
    /\ FlagIds(cmd_calls[2].cmd_list) = <<1>>

\* t stands in s as a whole token: a run of letters, digits and hyphens with
\* no such character next to it
IsWholeToken(s, t) ==
    \E i \in 1..Len(s) :
        /\ i + Len(t) - 1 <= Len(s)
        /\ SubSeq(s, i, i + Len(t) - 1) = t
        /\ (i = 1 \/ s[i - 1] \notin {"U", "l", "-"})
        /\ (i + Len(t) > Len(s) \/ s[i + Len(t)] \notin {"U", "l", "-"})

\* C15: a recognized code is a whole token of the scanned line and has the
\* shape {4-8 of [A-Z0-9]}-{4-8 of [A-Z0-9]}; no code is cut out of a longer
\* token.
C15_CodeIsWholeToken ==
    (mode = "login" /\ scanned # <<>> /\ auth_code_found # <<>>) =>
        /\ \E a \in CodeMin..CodeMax, b \in CodeMin..CodeMax :
             auth_code_found = CodeToken(a, b)
        /\ \E k \in 1..Len(scanned) : IsWholeToken(scanned[k], auth_code_found)

\* the URL tokens of a line: https:// and what follows up to the next blank,
\* at the start of the line or after a blank
UrlTokens(s) ==
    {SubSeq(s, i, i + RunLen(s, i + 1, NonSpace)) :
        i \in {k \in 1..Len(s) : UrlMatchAt(s, k) /\ (k = 1 \/ s[k - 1] = "sp")}}

\* C16: after the scan of the first line, with no URL recognized before, a
\* URL token of the line that contains the device-login path is recognized as
\* the authentication URL, whatever else the line contains.
C16_DeviceUrlRecognized ==
    (mode = "login" /\ Len(scanned) = 1) =>
        ((\E t \in UrlTokens(scanned[1]) : HasDevicePath(t)) =>
            /\ auth_url_found \in UrlTokens(scanned[1])
            /\ HasDevicePath(auth_url_found))

\* C17: a failure surfaced after the launch on the deadline path, on the
\* exception path or by an interruption of the caller comes with the process
\* reaped (terminated and waited for, unless it had already exited).
C17_FailureAfterCleanup ==
    (proc # "none" /\ pc \in {"returned", "raised"}
        /\ outcome \in {"timeout", "exception", "interrupted"}) =>
        proc = "reaped"

\* C18: a download_vscode_cli call that finds ./code present and is not
\* forced returns True at once, having performed no download, extraction,
\* removal or permission change.
C18_ExistingCliNoWork ==
    \A c \in DOMAIN dl :
        (dl[c].pc # "check" /\ dl[c].found /\ ~dl[c].force_download) =>
            /\ dl[c].pc = "done"
            /\ dl[c].ret = "True"
            /\ dl[c].ops = <<>>

\* call 1 downloaded, extracted and returned True; call 2 then found ./code
\* and returned True without doing anything
C18_Witness ==
    /\ DOMAIN dl = Callers
    /\ dl[1].pc = "done" /\ dl[1].ret = "True"
    /\ dl[1].ops = <<"download", "extract", "remove", "chmod">>
    /\ dl[2].pc = "done" /\ dl[2].ret = "True" /\ ~dl[2].force_download
    /\ dl[2].found /\ dl[2].ops = <<>>
    /\ cli_disk.dir /\ cli_disk.bin

\* C19: when two concurrent download_vscode_cli calls have both returned,
\* both returned True and ./code exists.
C19_ConcurrentAcquisitionSafe ==
    (DOMAIN dl = Callers /\ \A c \in Callers : dl[c].pc = "done") =>
        /\ \A c \in Callers : dl[c].ret = "True"
        /\ cli_disk.dir

\* C20: with the user name or the user email missing (None or empty), the
\* git configuration step runs no command: configure_git returns True
\* (skipped) and connect does not call configure_git.
C20_GitNeedsBothValues ==
    (git_call.via # "none"
        /\ ~(Truthy(git_call.git_user_name) /\ Truthy(git_call.git_user_email))) =>
        /\ git_call.cmds = <<>>
        /\ (git_call.via = "configure_git") => (git_call.ret = "True")
        /\ (git_call.via = "connect") => (git_call.ret = "not called")

\* configure_git(system, git_user_name="Test User") returned True and ran
\* nothing, though the command would have succeeded
C20_Witness ==
    /\ git_call.via = "configure_git"
    /\ git_call.git_user_name = "Test User" /\ git_call.git_user_email = "None"
    /\ git_call.n = "ok"
    /\ git_call.ret = "True" /\ git_call.cmds = <<>>

\* C21: configure_git with both values given sets user.name before
\* user.email and stops at the first failure: when the user.name command
\* fails it returns False having run that one command, and when user.name
\* succeeds and user.email fails it returns False having run exactly the two
\* commands, in that order.
C21_NameThenEmailStopAtFailure ==
    (git_call.via = "configure_git"
        /\ Truthy(git_call.git_user_name) /\ Truthy(git_call.git_user_email)) =>
        /\ (git_call.n = "fail") =>
              (git_call.ret = "False" /\ git_call.cmds = <<"user.name">>)
        /\ (git_call.n = "ok" /\ git_call.e = "fail") =>
              (git_call.ret = "False" /\ git_call.cmds = <<"user.name", "user.email">>)
        /\ (git_call.cmds # <<>>) => (git_call.cmds[1] = "user.name")

\* the user.name command failed though user.email would have succeeded:
\* False after one command
C21_Witness ==
    /\ git_call.via = "configure_git"
    /\ git_call.git_user_name = "Test User"
    /\ git_call.git_user_email = "test@example.com"
    /\ git_call.n = "fail" /\ git_call.e = "ok"
    /\ git_call.ret = "False" /\ git_call.cmds = <<"user.name">>

\* C22: when git cannot be located on PATH, configure_git with both values
\* given returns failure and runs no command.
C22_NoGitNoCommand ==
    (git_call.via = "configure_git" /\ ~git_call.git_on_path
        /\ Truthy(git_call.git_user_name) /\ Truthy(git_call.git_user_email)) =>
        (git_call.ret = "False" /\ git_call.cmds = <<>>)

\* C23: when running the user.name or the user.email command raises,
\* configure_git does not propagate the exception but returns failure.
C23_RaiseBecomesFailure ==
    (git_call.via = "configure_git"
        /\ Truthy(git_call.git_user_name) /\ Truthy(git_call.git_user_email)
        /\ (git_call.n = "raise" \/ (git_call.n = "ok" /\ git_call.e = "raise"))) =>
        (git_call.ret = "False")

\* C24: when the project directory already exists, setup_project_directory
\* returns its path and changes nothing: no directory is created, the working
\* directory is never changed, and neither git initialization nor
\* virtual-environment creation (nor any other step) is run.
C24_ExistingProjectUntouched ==
    (proj # <<>> /\ proj.exists) =>
        /\ proj.ops = <<>> /\ ~proj.made /\ proj.cwd = "original"
        /\ (proj.pc = "done") => (proj.ret = "path")

\* an existing project directory, every later step would have succeeded:
\* the call has returned the path
C24_Witness ==
    /\ proj # <<>> /\ proj.exists /\ proj.pc = "done" /\ proj.ret = "path"
    /\ proj.mk = "ok" /\ proj.git = "ok" /\ proj.ops = <<>>

\* C25: for a project directory it newly creates, setup_project_directory
\* reports failure (None) when virtual-environment creation fails.
C25_VenvFailureIsFailure ==
    (proj # <<>> /\ proj.pc = "done" /\ ~proj.exists /\ proj.made
        /\ proj.venv_ret = "False") =>
        (proj.ret = "None")

\* C26: when creating the project directory fails, setup_project_directory
\* returns None and performs no later step: the working directory is never
\* changed, git is not initialized and no virtual environment is created.
C26_MakeDirsFailureStops ==
    (proj # <<>> /\ ~proj.exists /\ proj.mk = "fail") =>
        /\ proj.ops \in {<<>>, <<"make_dirs">>}
        /\ proj.cwd = "original" /\ ~proj.made
        /\ (proj.pc = "done") => (proj.ret = "None")

\* make_dirs failed though every later step would have succeeded: None
C26_Witness ==
    /\ proj # <<>> /\ ~proj.exists /\ proj.mk = "fail" /\ proj.pc = "done"
    /\ proj.cd = "ok" /\ proj.git = "ok" /\ proj.py_found
    /\ proj.ops = <<"make_dirs">> /\ proj.ret = "None"

\* the steps of setup_and_get_python_executable in the order of its body
StepOrder == <<"install_pyenv", "versions", "install", "global", "locate">>

StepRank(step) == CHOOSE i \in DOMAIN StepOrder : StepOrder[i] = step

\* the call has begun the step
InSteps(step) == \E i \in DOMAIN py.steps : py.steps[i] = step

\* install_pyenv has made the System call
InOps(op) == \E i \in DOMAIN py.ops : py.ops[i] = op

\* C27: setup_and_get_python_executable runs its steps strictly in the
\* order install pyenv (only when pyenv is not installed), list the
\* versions, install the version (only when it is absent or a reinstall is
\* forced), set it global, locate the executable, skipping none of the
\* others; the first step that fails (or whose command raises) ends the
\* call with an error (with that exception) and is the last step run; with
\* the version listed and no reinstall forced the install step never runs.
C27_StepsInOrderStopAtFailure ==
    /\ \A i, j \in DOMAIN py.steps :
          i < j => StepRank(py.steps[i]) < StepRank(py.steps[j])
    /\ InSteps("install_pyenv") <=> (~py.installed0 /\ py.pc # "start")
    /\ InSteps("install") => (InSteps("versions") /\ (~py.present \/ py.force))
    /\ InSteps("global") =>
          /\ InSteps("versions")
          /\ (~py.present \/ py.force) => InSteps("install")
    /\ InSteps("locate") => InSteps("global")
    /\ (py.failed # "none") =>
          /\ py.pc = "done" /\ py.ret \in {"Err", "raise"}
          /\ py.steps[Len(py.steps)] = py.failed
    /\ (py.pc = "done") =>
          \/ py.failed # "none"
          \/ py.ret = "Ok" /\ InSteps("locate")

\* pyenv installed, the version listed, no reinstall forced: the call
\* succeeded with the three steps versions, global, locate
C27_Witness ==
    /\ py.installed0 /\ py.present /\ ~py.force
    /\ py.pc = "done" /\ py.ret = "Ok"
    /\ py.steps = <<"versions", "global", "locate">>

C29_BufferedOutputScanned ==
    (Returned /\ outcome = "exited") => (Len(scanned) = nWritten)

\* C29 (amended): login and connect report a premature exit at the first
\* poll, made after a scanned line that did not complete the match, that
\* finds the process exited: from then on no further line is scanned (login
\* leaves the buffered lines unread, connect reads and drops them), the
\* tokens are not all found, and the call returns its failure value.
C29_ExitEndsScanning ==
    [][(outcome' = "exited") =>
           /\ scanned' = scanned
           /\ ~TokensFound' /\ ~Succeeded'
           /\ Returned' => (result' = Failure)]_vars

\* login scanned the device URL and then saw the process exited: it returned
\* False with a line that holds the code still unread in the pipe
C29_Witness ==
    /\ mode = "login" /\ Returned /\ outcome = "exited" /\ result = "False"
    /\ auth_url_found # <<>> /\ auth_code_found = <<>>
    /\ pipe # <<>> /\ CodeReSearch(Head(pipe)) # <<>>

\* C30: the deadline is checked before each line is processed.  A line is
\* scanned only right after a check that found at most 60 seconds elapsed
\* since monitoring started; a check that finds more than 60 seconds elapsed
\* takes the timeout path, on which no line is scanned, the presenter is not
\* invoked, and the result is never True or a handle, whatever the line
\* holds.
C30_DeadlineCheckedBeforeScan ==
    [][/\ (pc # "scan" /\ pc' = "scan") =>
             (pc = "deadline" /\ now - start_time <= timeout_seconds)
       /\ (pc = "deadline" /\ pc' # "deadline" /\ now - start_time > timeout_seconds) =>
             (pc' = "terminate" /\ outcome' = "timeout")
       /\ (outcome' = "timeout") =>
             /\ scanned' = scanned /\ shown' = shown /\ presented' = presented
             /\ ~Succeeded']_vars

\* login read a line holding both the URL and the code, found the deadline
\* passed, and returned False without scanning it
C30_Witness ==
    /\ mode = "login" /\ Returned /\ outcome = "timeout" /\ result = "False"
    /\ line = LineBoth /\ scanned = <<>> /\ shown = <<>>
    /\ now - start_time > timeout_seconds

C32_EofIsFailureWithCleanup ==
    [][/\ (pc = "after" /\ pc' # "after" /\ outcome = "eof" /\ PollIsNone(proc)) =>
             (pc' = "terminate" /\ ~termSent')
       /\ (pc = "terminate" /\ outcome = "eof" /\ pc' # "terminate") =>
             (pc' = "wait" /\ termSent')
       /\ (Returned' /\ outcome' = "eof") =>
             /\ result' = Failure /\ ~TokensFound'
             /\ proc' = "reaped"
             /\ termSent' <=> waited']_vars

\* login found the URL only, the process closed its output without exiting:
\* terminate was sent, the wait completed, False was returned
C32_Witness ==
    /\ mode = "login" /\ Returned /\ outcome = "eof" /\ result = "False"
    /\ auth_url_found # <<>> /\ auth_code_found = <<>>
    /\ termSent /\ waited /\ proc = "reaped"

\* C33 (as stated): whenever the CLI binary is not present-and-executable
\* when login is called, login has made exactly one download attempt by the
\* time it decides to launch the process or to fail.
C33_LoginDownloadsOnce ==
    (/\ mode = "login" /\ ~is_executable(pre.fs0)
     /\ pc \notin {"idle", "l_check", "l_download"}) =>
        pre.downloads = 1

\* C34 (as stated): in connect, once the initial download has succeeded, no
\* outcome of the git configuration, the Python setup or the project
\* creation ends the call: each of the three steps hands over to the next
\* step on the way to the launch.
C34_SetupNeverEndsConnect ==
    [][(mode = "connect" /\ pc \in {"c_git", "c_python", "c_project"} /\ pc' # pc) =>
          pc' \notin {"returned", "raised"}]_vars

\* C35: the working directory handed to the launch of the tunnel process is
\* the project path exactly when a project was requested and
\* setup_project_directory returned a path; in every other case it is the
\* directory that was current when connect began.
C35_LaunchCwd ==
    (mode = "connect" /\ pc \notin {"idle", "c_download", "c_git", "c_python", "c_project"}) =>
        tunnel_cwd = IF pre.project_requested /\ pre.project_path = "path"
                     THEN "project" ELSE "cwd"

\* the tunnel process was launched in the directory of the new project
C35_Witness ==
    /\ mode = "connect" /\ proc = "running"
    /\ pre.project_requested /\ pre.project_path = "path"
    /\ tunnel_cwd = "project"

C38_NoArchiveLeft ==
    (pre.downloads > 0 /\ pc # "raised") => ~fs.tarball

====
